---- MODULE Spec2Model ----
(***************************************************************************)
(* Cost-estimation engine of the costing backend: linking of requested     *)
(* cost items against a cost library, capital / variable-opex formulas,    *)
(* per-asset estimation, request-level estimation and the error reducer.   *)
(*                                                                         *)
(* f64 values are IEEE 754 binary64 numbers, every operation rounded to    *)
(* nearest; Option<T> is [some |-> BOOLEAN, v |-> T];                      *)
(* Result<T, E> as [tag |-> "Ok", val |-> T] / [tag |-> "Err", err |-> E]; *)
(* a Rust panic (a failed expect) as [tag |-> "Panic"].                    *)
(***************************************************************************)
EXTENDS Integers, Sequences, FiniteSets, TLC

VARIABLES
    cost_libraries,   \* Api.cost_libraries : HashMap<&str, CostLibrary>
    library_id,       \* the library_id query parameter of POST /cost/estimate
    cost_library,     \* the CostLibrary the call reads: the one the handler found
    target_currency,  \* CostEstimateOptions.target_currency : Option<&str>
    assets,           \* the request's assets : Vec<AssetParameters>
    response,         \* what estimate_cost produced for the request
    cost_item,        \* the CostItemParameters handed to find_and_link
    linked,           \* Result<LinkedCostItem, CostEstimateError> of find_and_link
    costs,            \* Result<CostItemCosts, CostEstimateError> of get_costs
    opex,             \* Result<VariableOpexCostEstimate, _> of calculate_variable_opex_cost
    errors,           \* a Vec<CostEstimateError> handed to reduce(combine)
    combined,         \* the result of reduce(|acc, err| acc.combine(err))
    hash_order,       \* the iteration orders the HashSets of estimate_cost took
    period_costs,     \* CostItemPeriodCosts values handed to the lifetime fold
    lifetime,         \* the fold of period_costs from CostItemPeriodCosts::default()
    overflow_checks,  \* whether the build panics on integer overflow or wraps
    discounting,      \* discount_rate, year and start year of a year's discounting
    discounted_by,    \* the divisor the discounting of that year came to
    process,          \* LocalServer.process : Option<Child>
    lock,             \* the thread that holds the ServerState mutex, if any
    threads,          \* per thread: the call it is in, how far it got, its result
    alive,            \* the children spawned by LocalServer::start that still run
    spawned,          \* how many children LocalServer::start has spawned
    killed,           \* the children on which Child::kill has been called
    listening,        \* the processes that listen on the port of the server
    pc                \* which call is in progress and how far it got

fold_vars == <<period_costs, lifetime>>
discount_vars == <<overflow_checks, discounting, discounted_by>>
server_vars == <<process, lock, threads, alive, spawned, killed, listening>>

vars == <<cost_libraries, library_id, cost_library, target_currency, assets, response, cost_item, linked,
          costs, opex, errors, combined, hash_order, fold_vars, discount_vars,
          server_vars, pc>>

-----------------------------------------------------------------------------
(* Bounds of the explored inputs *)

MaxAssets == 2
MaxItems == 2
MaxErrors == 3
\* Timeline years run from FirstYear to FirstYear + MaxSpan
MaxSpan == 2
\* The lifetime fold runs over at most MaxPeriods yearly values
MaxPeriods == 2
\* start_local_server and stop_local_server are invoked at most MaxCommands
\* times in all
MaxCommands == 2

-----------------------------------------------------------------------------
(* Option, Result *)

None == [some |-> FALSE]
Some(x) == [some |-> TRUE, v |-> x]

Ok(x) == [tag |-> "Ok", val |-> x]
Err(e) == [tag |-> "Err", err |-> e]
Panic == [tag |-> "Panic"]

-----------------------------------------------------------------------------
(* f64 arithmetic (IEEE 754 binary64, round to nearest, ties to even) *)

Pow2(k) == 2 ^ k

\* f64: 53 bits of significand, exponents EMin..EMax
Precision == 53
EMin == -1022
EMax == 1023

\* A significand is held in two limbs of 28 bits, hi * 2^28 + lo; products
\* are formed on digits of 14 bits, so that no intermediate value exceeds 31
\* bits
LimbBits == (Precision + 3) \div 2
Limb == Pow2(LimbBits)
Digit == Pow2(LimbBits \div 2)

\* A finite f64 is (-1)^s * (hi * 2^28 + lo) * 2^(e - 52): normal when the
\* significand has 53 bits, subnormal (or zero) when it has fewer and
\* e = EMin
Finite(s, e, hi, lo) == [c |-> "num", s |-> s, e |-> e, hi |-> hi, lo |-> lo]
Zero(s) == Finite(s, EMin, 0, 0)
Infinity(s) == [c |-> "inf", s |-> s, e |-> EMax + 1, hi |-> 0, lo |-> 0]
NaN == [c |-> "nan", s |-> 0, e |-> EMax + 1, hi |-> 0, lo |-> 0]

IsNaN(x) == x.c = "nan"
IsInfinite(x) == x.c = "inf"
IsZero(x) == x.c = "num" /\ x.hi = 0 /\ x.lo = 0

\* The number of bits of x >= 0
RECURSIVE BitLen(_)
BitLen(x) ==
    IF x < 16
    THEN IF x < 4 THEN (IF x < 2 THEN x ELSE 2) ELSE (IF x < 8 THEN 3 ELSE 4)
    ELSE 4 + BitLen(x \div 16)

WideLen(hi, lo) == IF hi > 0 THEN LimbBits + BitLen(hi) ELSE BitLen(lo)

\* (hi, lo) shifted right by t >= 0 bits, hi being below 2^30: the bits
\* kept, in limbs again, the first bit dropped (round) and whether any later
\* bit dropped is set (sticky)
ShiftRight(hi, lo, t) ==
    IF t = 0 THEN [hi |-> hi, lo |-> lo, round |-> 0, sticky |-> FALSE]
    ELSE IF t < LimbBits
    THEN [hi |-> hi \div Pow2(t),
          lo |-> (lo \div Pow2(t)) + (hi % Pow2(t)) * Pow2(LimbBits - t),
          round |-> (lo \div Pow2(t - 1)) % 2,
          sticky |-> lo % Pow2(t - 1) # 0]
    ELSE IF t = LimbBits
    THEN [hi |-> hi \div Limb, lo |-> hi % Limb,
          round |-> lo \div Pow2(LimbBits - 1),
          sticky |-> lo % Pow2(LimbBits - 1) # 0]
    ELSE IF t - LimbBits <= 30
    THEN [hi |-> (hi \div Pow2(t - LimbBits)) \div Limb,
          lo |-> (hi \div Pow2(t - LimbBits)) % Limb,
          round |-> (hi \div Pow2(t - LimbBits - 1)) % 2,
          sticky |-> hi % Pow2(t - LimbBits - 1) # 0 \/ lo # 0]
    ELSE [hi |-> 0, lo |-> 0, round |-> 0, sticky |-> hi # 0 \/ lo # 0]

\* (hi, lo) shifted left by k >= 0 bits, for a result of at most 59 bits
ShiftLeft(hi, lo, k) ==
    IF k = 0 THEN [hi |-> hi, lo |-> lo]
    ELSE IF k < LimbBits
    THEN [hi |-> hi * Pow2(k) + lo \div Pow2(LimbBits - k),
          lo |-> (lo % Pow2(LimbBits - k)) * Pow2(k)]
    ELSE [hi |-> lo * Pow2(k - LimbBits), lo |-> 0]

\* The f64 of sign s, exponent e and significand (hi, lo), an infinity when
\* e is beyond EMax; a significand of 2^53, which rounding up can produce, is
\* 2^52 at the next exponent
Packed(s, e, hi, lo) ==
    IF hi = Pow2(Precision - LimbBits)
    THEN IF e + 1 > EMax THEN Infinity(s) ELSE Finite(s, e + 1, hi \div 2, 0)
    ELSE IF e > EMax THEN Infinity(s) ELSE Finite(s, e, hi, lo)

\* m is what is left of a significand after the bits below the last place
\* were shifted out: to nearest, ties to even
Nearest(s, e, m, sticky) ==
    IF m.round = 1 /\ (sticky \/ m.sticky \/ m.lo % 2 = 1)
    THEN IF m.lo + 1 = Limb THEN Packed(s, e, m.hi + 1, 0)
         ELSE Packed(s, e, m.hi, m.lo + 1)
    ELSE Packed(s, e, m.hi, m.lo)

\* (hi, lo) without its t lowest bits, rounded; all of it, shifted, if t <= 0
RoundTo(s, e, hi, lo, sticky, t) ==
    IF t <= 0
    THEN Nearest(s, e, [round |-> 0, sticky |-> FALSE] @@ ShiftLeft(hi, lo, 0 - t), FALSE)
    ELSE Nearest(s, e, ShiftRight(hi, lo, t), sticky)

\* As Round, n being the number of bits of (hi, lo): a normal number keeps
\* 53 bits, a subnormal one the bits from 2^(EMin - 52) up
RoundBits(s, q, hi, lo, sticky, n) ==
    RoundTo(s, IF q + n - 1 >= EMin THEN q + n - 1 ELSE EMin, hi, lo, sticky,
            IF q + n - 1 >= EMin THEN n - Precision ELSE (EMin - 52) - q)

\* The f64 nearest to (-1)^s * (hi * 2^28 + lo [+ a fraction if sticky]) * 2^q,
\* ties to even; hi < 2^30, and sticky only with at least 55 bits in (hi, lo)
Round(s, q, hi, lo, sticky) ==
    IF hi = 0 /\ lo = 0 THEN Zero(s)
    ELSE RoundBits(s, q, hi, lo, sticky, WideLen(hi, lo))

\* A finite non-zero x with its significand brought to 53 bits:
\* x = (-1)^s * (hi, lo) * 2^(e - 52), e below EMin for a subnormal x
Subnormal(x, k) == [e |-> x.e - k] @@ ShiftLeft(x.hi, x.lo, k)

Normalized(x) ==
    IF x.hi >= Pow2(Precision - LimbBits - 1) THEN x
    ELSE Subnormal(x, Precision - WideLen(x.hi, x.lo))

Sign(x, y) == IF x.s = y.s THEN 0 ELSE 1

\* An integer as f64 (`as f64`): exact, the integers here being below 2^53
Exact(s, m) ==
    [c |-> "num", s |-> s] @@ Normalized(Finite(s, 52, m \div Limb, m % Limb))

R(i) == IF i = 0 THEN Zero(0) ELSE IF i < 0 THEN Exact(1, 0 - i) ELSE Exact(0, i)

\* The product of two significands of 53 bits, from the sums p0..p6 of the
\* products of digits of equal weight: carried limb by limb, then the 57
\* highest bits of its 106 rounded
MulHigh(sticky, limb, w, p, q, s) ==
    Round(s, q, (w % Limb) \div 2097152 + (p + w \div Limb) * 128,
          limb \div 2097152 + ((w % Limb) % 2097152) * 128,
          sticky \/ limb % 2097152 # 0)

MulMid(sticky, w, c, p5, p6, q, s) ==
    MulHigh(sticky, w % Limb, (c + w \div Limb) + (p5 % Digit) * Digit,
            p5 \div Digit + p6, q, s)

MulLow(w, c, p3, p4, p5, p6, q, s) ==
    MulMid(w % Limb # 0, (c + w \div Limb) + (p3 % Digit) * Digit,
           p3 \div Digit + p4, p5, p6, q, s)

MulColumns(p0, p1, p2, p3, p4, p5, p6, q, s) ==
    MulLow(p0 + (p1 % Digit) * Digit, p1 \div Digit + p2, p3, p4, p5, p6, q, s)

MulDigits(a0, a1, a2, a3, b0, b1, b2, b3, q, s) ==
    MulColumns(a0 * b0, a0 * b1 + a1 * b0, a0 * b2 + a1 * b1 + a2 * b0,
               a0 * b3 + a1 * b2 + a2 * b1 + a3 * b0,
               a1 * b3 + a2 * b2 + a3 * b1, a2 * b3 + a3 * b2, a3 * b3, q, s)

MulNormal(a, b, s) ==
    MulDigits(a.lo % Digit, a.lo \div Digit, a.hi % Digit, a.hi \div Digit,
              b.lo % Digit, b.lo \div Digit, b.hi % Digit, b.hi \div Digit,
              (a.e - 52) + (b.e - 52) + 49, s)

\* The product of two finite non-zero numbers
MulFinite(x, y) == MulNormal(Normalized(x), Normalized(y), Sign(x, y))

\* x * y
RMul(x, y) ==
    IF IsNaN(x) \/ IsNaN(y) THEN NaN
    ELSE IF IsInfinite(x) \/ IsInfinite(y)
    THEN IF IsZero(x) \/ IsZero(y) THEN NaN ELSE Infinity(Sign(x, y))
    ELSE IF IsZero(x) \/ IsZero(y) THEN Zero(Sign(x, y))
    ELSE MulFinite(x, y)

\* (rh, rl) * 2^14 - (t0 + t1 * 2^14 + t2 * 2^28 + t3 * 2^42), limb by limb
DivSubTop(dlo, dmid, dtop) ==
    [neg |-> dtop < 0 \/ (dtop = 0 /\ dmid < 0),
     hi |-> IF dmid < 0 THEN dmid + Limb ELSE dmid,
     lo |-> IF dlo < 0 THEN dlo + Limb ELSE dlo]

DivSubMid(dlo, w, c, rh, rl) ==
    DivSubTop(dlo,
              ((rh % Digit) * Digit + rl \div Digit) - (w % Limb)
                  - (IF dlo < 0 THEN 1 ELSE 0),
              rh \div Digit - (c + w \div Limb))

DivSubLow(w, c, t3, rh, rl) ==
    DivSubMid((rl % Digit) * Digit - (w % Limb),
              (c + w \div Limb) + (t3 % Digit) * Digit, t3 \div Digit, rh, rl)

DivSub(t0, t1, t2, t3, rh, rl) ==
    DivSubLow(t0 + (t1 % Digit) * Digit, t1 \div Digit + t2, t3, rh, rl)

\* One step of the long division by the divisor v3 v2 v1 v0 (digits of 14
\* bits, v3 >= 2^13): the remainder (rh, rl), below the divisor, is shifted
\* by one digit and divided. The digit q tried is the quotient or above it
\* by at most 2.
RECURSIVE DivTry(_, _, _, _, _, _, _)
DivChecked(q, d, rh, rl, v0, v1, v2, v3) ==
    IF d.neg THEN DivTry(q - 1, rh, rl, v0, v1, v2, v3)
    ELSE [q |-> q, hi |-> d.hi, lo |-> d.lo]

DivTry(q, rh, rl, v0, v1, v2, v3) ==
    DivChecked(q, DivSub(q * v0, q * v1, q * v2, q * v3, rh, rl),
               rh, rl, v0, v1, v2, v3)

DivStep(rh, rl, v0, v1, v2, v3) ==
    DivTry(IF rh \div v3 >= Digit THEN Digit - 1 ELSE rh \div v3,
           rh, rl, v0, v1, v2, v3)

\* The four digits of the quotient, highest first, then the rounding
DivLast(qh, q2, d, q, s) ==
    Round(s, q, qh, q2 * Digit + d.q, d.hi # 0 \/ d.lo # 0)

DivThird(qh, d, v0, v1, v2, v3, q, s) ==
    DivLast(qh, d.q, DivStep(d.hi, d.lo, v0, v1, v2, v3), q, s)

DivSecond(q4, d, v0, v1, v2, v3, q, s) ==
    DivThird(q4 * Digit + d.q, DivStep(d.hi, d.lo, v0, v1, v2, v3),
             v0, v1, v2, v3, q, s)

DivFirst(d, v0, v1, v2, v3, q, s) ==
    DivSecond(d.q, DivStep(d.hi, d.lo, v0, v1, v2, v3), v0, v1, v2, v3, q, s)

DivDigits(rh, rl, v0, v1, v2, v3, q, s) ==
    DivFirst(DivStep(rh, rl, v0, v1, v2, v3), v0, v1, v2, v3, q, s)

\* u is the dividend shifted by 2 bits, v the divisor shifted by 3 (55 and
\* 56 bits): the quotient floor(u * 2^56 / v) has 55 or 56 bits
DivLimbs(u, v, q, s) ==
    DivDigits(u.hi, u.lo, v.lo % Digit, v.lo \div Digit, v.hi % Digit,
              v.hi \div Digit, q, s)

DivNormal(a, b, s) ==
    DivLimbs(ShiftLeft(a.hi, a.lo, 2), ShiftLeft(b.hi, b.lo, 3), a.e - b.e - 55, s)

\* The quotient of two finite non-zero numbers
DivFinite(x, y) == DivNormal(Normalized(x), Normalized(y), Sign(x, y))

\* x / y
RDiv(x, y) ==
    IF IsNaN(x) \/ IsNaN(y) THEN NaN
    ELSE IF IsInfinite(x)
    THEN IF IsInfinite(y) THEN NaN ELSE Infinity(Sign(x, y))
    ELSE IF IsInfinite(y) THEN Zero(Sign(x, y))
    ELSE IF IsZero(y)
    THEN IF IsZero(x) THEN NaN ELSE Infinity(Sign(x, y))
    ELSE IF IsZero(x) THEN Zero(Sign(x, y))
    ELSE DivFinite(x, y)

\* A decimal literal of the source, a / b written out: the f64 nearest to
\* the quotient of the two integers
Frac(a, b) == RDiv(R(a), R(b))

\* The bits shifted out of b kept as its lowest bit
Jammed(b) ==
    [hi |-> b.hi,
     lo |-> IF (b.round = 1 \/ b.sticky) /\ b.lo % 2 = 0 THEN b.lo + 1 ELSE b.lo]

\* a - b with the sign s of a, for a >= b
Difference(s, a, b) ==
    [s |-> IF a = b THEN 0 ELSE s,
     hi |-> a.hi - b.hi - (IF a.lo < b.lo THEN 1 ELSE 0),
     lo |-> (a.lo - b.lo + Limb) % Limb]

\* The sum of a of sign sa and b of sign sb: its sign and magnitude
Combined(a, b, sa, sb) ==
    IF sa = sb
    THEN [s |-> sa, hi |-> a.hi + b.hi + (a.lo + b.lo) \div Limb,
          lo |-> (a.lo + b.lo) % Limb]
    ELSE IF a.hi > b.hi \/ (a.hi = b.hi /\ a.lo >= b.lo)
    THEN Difference(sa, a, b)
    ELSE Difference(sb, b, a)

AddRounded(sum, q) == Round(sum.s, q, sum.hi, sum.lo, FALSE)

AddShifted(a, b, d, sa, sb, q) ==
    AddRounded(Combined(a, Jammed(ShiftRight(b.hi, b.lo, d)), sa, sb), q)

\* x + y for finite non-zero x and y with x.e >= y.e, on significands with
\* three more bits, the lowest of which stands for every bit of y below it
AddAligned(x, y) ==
    AddShifted(ShiftLeft(x.hi, x.lo, 3), ShiftLeft(y.hi, y.lo, 3), x.e - y.e,
               x.s, y.s, x.e - 55)

\* x + y
RAdd(x, y) ==
    IF IsNaN(x) \/ IsNaN(y) THEN NaN
    ELSE IF IsInfinite(x)
    THEN IF IsInfinite(y) /\ x.s # y.s THEN NaN ELSE x
    ELSE IF IsInfinite(y) THEN y
    ELSE IF IsZero(x)
    THEN IF IsZero(y) THEN Zero(IF x.s = 1 /\ y.s = 1 THEN 1 ELSE 0) ELSE y
    ELSE IF IsZero(y) THEN x
    ELSE AddAligned(IF x.e >= y.e THEN x ELSE y, IF x.e >= y.e THEN y ELSE x)

\* -x
RNeg(x) == IF IsNaN(x) THEN x ELSE [x EXCEPT !.s = 1 - x.s]

\* x - y
RSub(x, y) == RAdd(x, RNeg(y))

\* f64::powi, as the compiler's builtin computes it: by squaring, and the
\* reciprocal for a negative exponent
RECURSIVE powi_loop(_, _, _)
powi_step(a, pow, mul) ==
    IF pow \div 2 = 0 THEN mul ELSE powi_loop(RMul(a, a), pow \div 2, mul)

powi_loop(a, pow, mul) ==
    powi_step(a, pow, IF pow % 2 = 1 THEN RMul(mul, a) ELSE mul)

powi(x, n) ==
    IF n < 0 THEN RDiv(R(1), powi_loop(x, 0 - n, R(1))) ELSE powi_loop(x, n, R(1))

\* x == y of f64: no NaN equals anything, the two zeros are equal
REq(x, y) ==
    /\ ~IsNaN(x)
    /\ ~IsNaN(y)
    /\ \/ x = y
       \/ IsZero(x) /\ IsZero(y)

\* x < y of f64
RLess(x, y) ==
    IF IsNaN(x) \/ IsNaN(y) THEN FALSE
    ELSE IF x.s # y.s THEN x.s = 1 /\ ~(IsZero(x) /\ IsZero(y))
    ELSE IF x.s = 0
    THEN x.e < y.e \/ (x.e = y.e /\ (x.hi < y.hi \/ (x.hi = y.hi /\ x.lo < y.lo)))
    ELSE y.e < x.e \/ (x.e = y.e /\ (y.hi < x.hi \/ (x.hi = y.hi /\ y.lo < x.lo)))

-----------------------------------------------------------------------------
(* Sequence helpers *)

Range(s) == {s[i] : i \in 1..Len(s)}

\* Iterator::reduce: None on an empty iterator, else the left fold that
\* starts from the first element.
Reduce(Op(_, _), s) ==
    LET f[i \in 1..Len(s)] == IF i = 1 THEN s[1] ELSE Op(f[i - 1], s[i])
    IN  IF s = <<>> THEN None ELSE Some(f[Len(s)])

\* Iterator::map(..).collect::<Vec<_>>(); appending <<>> has the elements
\* evaluated once, when the sequence is built
Map(F(_), s) == [i \in 1..Len(s) |-> F(s[i])] \o <<>>

RECURSIVE Flatten(_)
Flatten(ss) == IF ss = <<>> THEN <<>> ELSE Head(ss) \o Flatten(Tail(ss))

\* Iterator::fold
Fold(Op(_, _), init, s) ==
    LET f[i \in 0..Len(s)] == IF i = 0 THEN init ELSE Op(f[i - 1], s[i])
    IN  f[Len(s)]

\* Iterator::sum of f64: the fold of + from -0.0
Sum(s) == Fold(RAdd, Zero(1), s)

Reverse(s) == [i \in 1..Len(s) |-> s[Len(s) + 1 - i]]

\* i32::to_string / u32::to_string on a non-negative number
Digits == <<"0", "1", "2", "3", "4", "5", "6", "7", "8", "9">>

RECURSIVE to_string(_)
to_string(n) ==
    IF n < 10 THEN Digits[n + 1] ELSE to_string(n \div 10) \o Digits[(n % 10) + 1]

-----------------------------------------------------------------------------
(* The cost library (cost_library crate types, as the engine reads them) *)

Linear(base_cost) == [tag |-> "Linear", base_cost |-> base_cost]
Polynomial(parts) == [tag |-> "Polynomial", parameters |-> parts]
Variable(dimension_name, coefficient, exponent) ==
    [tag |-> "Variable", dimension_name |-> dimension_name,
     coefficient |-> coefficient, exponent |-> exponent]
Constant(value) == [tag |-> "Constant", value |-> value]

CostScalingFactor(name, source_value) == [name |-> name, source_value |-> source_value]
VariableOpexContribution(name, scaled_by) == [name |-> name, scaled_by |-> scaled_by]

CostReferenceItem(id, cost_type, scaling_factors, year, currency, cost, vocs) ==
    [id |-> id,
     info |-> [cost_type |-> cost_type],
     scaling_factors |-> scaling_factors,
     capex_contribution |-> [year |-> year, currency |-> currency, cost |-> cost],
     variable_opex_contributions |-> vocs]

\* CostReferenceItemCostType::default(), which cost_type.unwrap_or_default()
\* yields for an item that declares no cost type
CostTypeDefault == "DirectEquipmentCost"

LengthDepth == <<CostScalingFactor("length", R(50)), CostScalingFactor("depth", R(50))>>
LengthOnly == <<CostScalingFactor("length", R(50))>>

\* A library as the tests of mod.rs build one (create_cost_library).
\* Items 001, 002 and 003 are those of create_cost_library; the others add a
\* total-installed-cost item with a variable-opex contribution, items whose
\* currency or year the tables do not hold, two polynomial items, the
\* second of which reads a dimension it does not declare as a scaling factor,
\* an item whose variable-opex contribution bears a name that is none of the
\* nine categories, a polynomial item without terms, and three items for the
\* nine categories of calculate_variable_opex_cost: one that declares a
\* contribution to each, no two scaled alike, one that declares three of
\* them, the tariff twice, and one of unknown currency and year that declares
\* natural gas.
AllCategoryContributions ==
    << VariableOpexContribution("Electrical power", R(2)),
       VariableOpexContribution("Cooling water (10degC temp rise)", R(3)),
       VariableOpexContribution("Natural gas", R(5)),
       VariableOpexContribution("Steam HP superheat, 600degC and 50bara", R(7)),
       VariableOpexContribution("Steam LP saturated, 160degC and 6.2bara", Frac(1, 2)),
       VariableOpexContribution("Catalysts and chemicals", Frac(3, 2)),
       VariableOpexContribution("Equipment item rental", R(4)),
       VariableOpexContribution("Cost per tonne of CO2", Frac(1, 4)),
       VariableOpexContribution("Tariff paid to storage reservoir owner", R(11)) >>

SomeCategoryContributions ==
    << VariableOpexContribution("Tariff paid to storage reservoir owner", R(3)),
       VariableOpexContribution("Cooling water (10degC temp rise)", R(6)),
       VariableOpexContribution("Tariff paid to storage reservoir owner", R(5)),
       VariableOpexContribution("Steam LP saturated, 160degC and 6.2bara", R(9)) >>

LibraryModules ==
    << [id |-> "M0101", cost_items |->
          << CostReferenceItem("Item 001", None, LengthDepth, 2024, "GBP",
                               Linear(R(100)), <<>>) >>],
       [id |-> "M0102", cost_items |->
          << CostReferenceItem("Item 002", None, LengthDepth, 2023, "GBP",
                               Linear(R(100)), <<>>) >>],
       [id |-> "M0103", cost_items |->
          << CostReferenceItem("Item 003", None, LengthDepth, 2023, "EUR",
                               Linear(R(100)), <<>>),
             CostReferenceItem("Item 010", Some("TotalInstalledCost"), LengthOnly,
                               2023, "EUR", Linear(R(200)),
                               <<VariableOpexContribution("Electrical power", R(2))>>) >>],
       [id |-> "M0201", cost_items |->
          << CostReferenceItem("Item 020", None, <<>>, 2024, "KHR", Linear(R(100)), <<>>),
             CostReferenceItem("Item 030", None, <<>>, 1066, "GBP", Linear(R(100)), <<>>),
             CostReferenceItem("Item 040", Some("TotalInstalledCost"), <<>>, 1066, "KHR",
                               Linear(R(100)), <<>>) >>],
       [id |-> "M0301", cost_items |->
          << CostReferenceItem("Item 058", Some("DirectEquipmentCost"), LengthOnly,
                               2024, "GBP",
                               Polynomial(<<Constant(R(10)), Variable("length", R(3), R(2))>>),
                               <<>>),
             CostReferenceItem("Item 059", Some("DirectEquipmentCost"), LengthOnly,
                               2024, "GBP",
                               Polynomial(<<Variable("length", R(3), R(2)),
                                            Variable("depth", R(5), R(1))>>),
                               <<>>) >>],
       [id |-> "M0401", cost_items |->
          << CostReferenceItem("Item 060", None, LengthOnly, 2024, "GBP", Linear(R(100)),
                               <<VariableOpexContribution("depth", R(3))>>),
             CostReferenceItem("Item 061", None, <<>>, 2024, "GBP", Polynomial(<<>>),
                               <<>>) >>],
       [id |-> "M0501", cost_items |->
          << CostReferenceItem("Item 070", None, <<>>, 2023, "EUR", Linear(R(100)),
                               AllCategoryContributions),
             CostReferenceItem("Item 071", None, <<>>, 2024, "GBP", Linear(R(100)),
                               SomeCategoryContributions),
             CostReferenceItem("Item 072", None, <<>>, 1066, "KHR", Linear(R(100)),
                               <<VariableOpexContribution("Natural gas", R(5))>>) >>] >>

Library ==
    [modules |-> LibraryModules,
     currency_conversion |->
        [base_currency |-> "GBP",
         rates |-> [c \in {"GBP", "EUR"} |-> IF c = "GBP" THEN R(1) ELSE R(3)]],
     inflation |->
        [factors |-> [y \in {"2024", "2023"} |-> IF y = "2024" THEN R(1) ELSE R(2)]]]

\* What the tests of cost_calculator.rs and linked_cost_item.rs read from the
\* data file of V1.1_working, which lies outside the source tree: the
\* inflation factor of 2023 (1.2345478204293925), no factor for 1066, the
\* rate of GBP (1.15), no rate for KHR, Item 074 (linear, scaled by Captured
\* CO2, with variable-opex contributions Electrical power and Thermal Duty)
\* and Item 058 (polynomial in length), no Item 999. The numbers the tests
\* do not show (base cost, source value, scaled_by, the terms of the
\* polynomial, the currency of rate 1) are such that the three calculations
\* the tests make come to the values the tests expect.
InflationOf2023 == Finite(0, 0, 20712275, 119634470)

LibraryV1_1Modules ==
    << [id |-> "M0301", cost_items |->
          << CostReferenceItem("Item 058", Some("DirectEquipmentCost"),
                               <<CostScalingFactor("length", R(1))>>, 2023, "EUR",
                               Polynomial(<<Constant(Finite(0, 24, 29189434, 227472022)),
                                            Variable("length", R(1000000), R(1))>>),
                               <<>>) >>],
       [id |-> "M0401", cost_items |->
          << CostReferenceItem("Item 074", Some("DirectEquipmentCost"),
                               <<CostScalingFactor("Captured CO2", R(29))>>, 2023, "EUR",
                               Linear(R(39689000)),
                               <<VariableOpexContribution("Electrical power",
                                                          Frac(923, 900)),
                                 VariableOpexContribution("Thermal Duty", R(1))>>) >>] >>

LibraryV1_1 ==
    [modules |-> LibraryV1_1Modules,
     currency_conversion |->
        [base_currency |-> "EUR",
         rates |-> [c \in {"GBP", "EUR"} |-> IF c = "GBP" THEN Frac(115, 100) ELSE R(1)]],
     inflation |-> [factors |-> [y \in {"2023"} |-> InflationOf2023]]]

\* The libraries the calls are made on
Libraries == {Library, LibraryV1_1}

\* Api::default(): the cost libraries by id, each read from its data file.
\* V1.1_working holds what the tests read from it; what the files of V1.3 and
\* V2.0 hold the source does not show, and they hold either library.
LibraryIds == {"V1.1_working", "V1.3", "V2.0"}
Apis ==
    {[id \in LibraryIds |-> IF id = "V1.1_working" THEN LibraryV1_1 ELSE later] :
        later \in Libraries}

\* No Api: a call made on a library directly
NoApi == <<>>

\* Ids the Api holds no library under
UnknownIds == {"V9"}

\* No library looked up yet, no library id given
NoLibrary == [modules |-> <<>>]
NoLibraryId == ""

-----------------------------------------------------------------------------
(* CostEstimateError and its reducer (response.rs) *)

MissingProperty(id, property) == [id |-> id, property |-> property]

MissingProperties(properties) == [type |-> "MissingProperties", properties |-> properties]
UnknownCostItem(id) == [type |-> "UnknownCostItem", id |-> id]
UnknownCurrencyConversion(currency) ==
    [type |-> "UnknownCurrencyConversion", currency |-> currency]
UnknownInflationFactor(year) == [type |-> "UnknownInflationFactor", year |-> year]

\* CostEstimateErrorMissingProperties::combine: properties.extend(other.properties)
\* combine_missing_properties leaving out the pairs the first list already holds
combine_missing_properties_dedup(a, b) ==
    MissingProperties(a.properties
                      \o SelectSeq(b.properties, LAMBDA p : p \notin Range(a.properties)))

combine_missing_properties(a, b) == MissingProperties(a.properties \o b.properties)

\* combine letting MissingProperties stand against an error of another kind
combine_keeps_missing(self, other) ==
    IF self.type = "MissingProperties" /\ other.type = "MissingProperties"
    THEN combine_missing_properties(self, other)
    ELSE IF self.type = "MissingProperties" THEN self
    ELSE IF other.type = "MissingProperties" THEN other
    ELSE IF other.type = "UnknownCostItem" THEN other
    ELSE IF self.type = "UnknownCostItem" THEN self
    ELSE IF other.type = "UnknownCurrencyConversion" THEN other
    ELSE IF self.type = "UnknownCurrencyConversion" THEN self
    ELSE IF other.type = "UnknownInflationFactor" THEN other
    ELSE self

\* combine keeping the first of two errors of one kind
combine_first_wins(self, other) ==
    IF self.type = "MissingProperties" /\ other.type = "MissingProperties"
    THEN combine_missing_properties(self, other)
    ELSE IF self.type = "UnknownCostItem" THEN self
    ELSE IF other.type = "UnknownCostItem" THEN other
    ELSE IF self.type = "UnknownCurrencyConversion" THEN self
    ELSE IF other.type = "UnknownCurrencyConversion" THEN other
    ELSE IF self.type = "UnknownInflationFactor" THEN self
    ELSE other

\* combine returning the later of two errors neither of which it merges
combine_later_wins(self, other) ==
    IF self.type = "MissingProperties" /\ other.type = "MissingProperties"
    THEN combine_missing_properties(self, other)
    ELSE IF other.type = "MissingProperties" THEN self
    ELSE other

\* CostEstimateError::combine(self, other): the match arms in source order;
\* in an or-pattern (_, K(a)) | (K(a), _) the left alternative binds first.
combine(self, other) ==
    IF self.type = "MissingProperties" /\ other.type = "MissingProperties"
    THEN combine_missing_properties(self, other)
    ELSE IF other.type = "UnknownCostItem" THEN other
    ELSE IF self.type = "UnknownCostItem" THEN self
    ELSE IF other.type = "UnknownCurrencyConversion" THEN other
    ELSE IF self.type = "UnknownCurrencyConversion" THEN self
    ELSE IF other.type = "UnknownInflationFactor" THEN other
    ELSE self

\* partition_results: the Ok values and the Err values, each in iteration order
partition_results(results) ==
    [oks |-> Map(LAMBDA r : r.val, SelectSeq(results, LAMBDA r : r.tag = "Ok")),
     errors |-> Map(LAMBDA r : r.err, SelectSeq(results, LAMBDA r : r.tag = "Err"))]

-----------------------------------------------------------------------------
(* Request data (request.rs) *)

CostItemParameters(id, ref, quantity, parameters) ==
    [id |-> id, cost_item_ref |-> ref, quantity |-> quantity, parameters |-> parameters]

\* RangeInclusive<Year>: start..=end, its len() and contains()
RangeInclusive(first, last) == [first |-> first, last |-> last]
range_len(r) == IF r.first <= r.last THEN r.last - r.first + 1 ELSE 0
range_contains(r, year) == r.first <= year /\ year <= r.last
range_years(r) == [i \in 1..range_len(r) |-> r.first + i - 1]

Timeline(construction_start, construction_finish, operation_start, operation_finish, decommissioning_start, decommissioning_finish) ==
    [construction_start |-> construction_start,
     construction_finish |-> construction_finish,
     operation_start |-> operation_start,
     operation_finish |-> operation_finish,
     decommissioning_start |-> decommissioning_start,
     decommissioning_finish |-> decommissioning_finish]

timeline_start(timeline) == timeline.construction_start
timeline_end(timeline) == timeline.decommissioning_finish
timeline_range(timeline) ==
    RangeInclusive(timeline_start(timeline), timeline_end(timeline))
\* construction_range with its two years put in ascending order
construction_range_ordered(timeline) ==
    IF timeline.construction_start <= timeline.construction_finish
    THEN RangeInclusive(timeline.construction_start, timeline.construction_finish)
    ELSE RangeInclusive(timeline.construction_finish, timeline.construction_start)

construction_range(timeline) ==
    RangeInclusive(timeline.construction_start, timeline.construction_finish)
\* operation_range leaving the first year of operation out
operation_range_after_first_year(timeline) ==
    RangeInclusive(timeline.operation_start + 1, timeline.operation_finish)

operation_range(timeline) ==
    RangeInclusive(timeline.operation_start, timeline.operation_finish)
decommissioning_range(timeline) ==
    RangeInclusive(timeline.decommissioning_start, timeline.decommissioning_finish)

\* The fields of CapexLangFactors and LangFactoredCostEstimate, in the order
\* in which total() adds them
LangFields ==
    <<"equipment_erection", "piping", "instrumentation", "electrical",
      "buildings_and_process", "utilities", "storages", "site_development",
      "ancillary_buildings", "design_and_engineering", "contractors_fee",
      "contingency">>

\* CapexLangFactors::default()
CapexLangFactorsDefault ==
    [equipment_erection |-> Frac(4, 10), piping |-> Frac(7, 10),
     instrumentation |-> Frac(2, 10), electrical |-> Frac(1, 10),
     buildings_and_process |-> Frac(15, 100), utilities |-> Frac(5, 10),
     storages |-> Frac(15, 100), site_development |-> Frac(5, 100),
     ancillary_buildings |-> Frac(15, 100), design_and_engineering |-> Frac(3, 10),
     contractors_fee |-> Frac(5, 100), contingency |-> R(1)]

\* The fields of FixedOpexFactors and FixedOpexCostEstimate
FixedOpexFields ==
    <<"maintenance", "control_room_facilities", "insurance_liability",
      "insurance_equipment_loss", "cost_of_capital", "major_turnarounds">>

\* FixedOpexFactors::default()
FixedOpexFactorsDefault ==
    [maintenance |-> Frac(8, 100), control_room_facilities |-> Zero(0),
     insurance_liability |-> Zero(0), insurance_equipment_loss |-> Zero(0),
     cost_of_capital |-> Zero(0), major_turnarounds |-> Zero(0)]

\* AssetParameters, less the fields the estimate never reads
\* (labour_average_salary, fte_personnel, asset_uptime)
AssetParameters(id, timeline, capex_lang_factors, opex_factors, cost_items, discount_rate) ==
    [id |-> id, timeline |-> timeline, capex_lang_factors |-> capex_lang_factors,
     opex_factors |-> opex_factors, cost_items |-> cost_items,
     discount_rate |-> discount_rate]

\* Parameters = HashMap<String, f64>: a function from the supplied names
EmptyParameters == [x \in {} |-> Zero(0)]

-----------------------------------------------------------------------------
(* Cost item linker (linked_cost_item.rs) *)

\* The id-keyed map estimate_asset_cost collects from every module; a later
\* item replaces an earlier one with the same id (HashMap::insert).
cost_reference_items(library) ==
    LET items == Flatten(Map(LAMBDA m : m.cost_items, library.modules))
        last(id) == CHOOSE i \in 1..Len(items) :
                        /\ items[i].id = id
                        /\ \A j \in (i + 1)..Len(items) : items[j].id # id
    IN  [id \in {items[i].id : i \in 1..Len(items)} |-> items[last(id)]]

\* link requiring the scaling-factor names only
link_scaling_factors_only(id, parameters, quantity, cost_reference_item, library, iteration) ==
    LET required_parameters ==
            {f.name : f \in Range(cost_reference_item.scaling_factors)}
        missing_parameters ==
            SelectSeq(iteration,
                      LAMBDA name : name \in required_parameters
                                    /\ name \notin DOMAIN parameters)
    IN  IF required_parameters \subseteq DOMAIN parameters
        THEN Ok([id |-> id, parameters |-> parameters, quantity |-> quantity,
                 cost_reference_item |-> cost_reference_item,
                 cost_library |-> library])
        ELSE Err(MissingProperties(
                    [k \in 1..Len(missing_parameters) |->
                        [id |-> id, property |-> missing_parameters[k]]]))

\* link requiring, of the variable-opex contributions, only those named as one
\* of the categories of calculate_variable_opex_cost
link_categories_only(id, parameters, quantity, cost_reference_item, library, iteration) ==
    LET categories ==
            {"Electrical power", "Cooling water (10degC temp rise)", "Natural gas",
             "Steam HP superheat, 600degC and 50bara",
             "Steam LP saturated, 160degC and 6.2bara", "Catalysts and chemicals",
             "Equipment item rental", "Cost per tonne of CO2",
             "Tariff paid to storage reservoir owner"}
        required_parameters ==
            {f.name : f \in Range(cost_reference_item.scaling_factors)}
            \cup ({c.name : c \in Range(cost_reference_item.variable_opex_contributions)}
                  \cap categories)
        missing_parameters ==
            SelectSeq(iteration,
                      LAMBDA name : name \in required_parameters
                                    /\ name \notin DOMAIN parameters)
    IN  IF required_parameters \subseteq DOMAIN parameters
        THEN Ok([id |-> id, parameters |-> parameters, quantity |-> quantity,
                 cost_reference_item |-> cost_reference_item,
                 cost_library |-> library])
        ELSE Err(MissingProperties(
                    Map(LAMBDA property : MissingProperty(id, property),
                        missing_parameters)))

\* LinkedCostItem::link. iteration lists the parameter names in the order in
\* which the HashSet of required names happens to iterate; the missing names
\* (required.difference(provided)) come out in that order.
link(id, parameters, quantity, cost_reference_item, library, iteration) ==
    LET required_parameters ==
            {f.name : f \in Range(cost_reference_item.scaling_factors)}
            \cup {c.name : c \in Range(cost_reference_item.variable_opex_contributions)}
        provided_parameters == DOMAIN parameters
        missing_parameters ==
            SelectSeq(iteration,
                      LAMBDA name : name \in required_parameters
                                    /\ name \notin provided_parameters)
    IN  IF required_parameters \subseteq provided_parameters
        THEN Ok([id |-> id, parameters |-> parameters, quantity |-> quantity,
                 cost_reference_item |-> cost_reference_item,
                 cost_library |-> library])
        ELSE Err(MissingProperties(
                    Map(LAMBDA property : MissingProperty(id, property),
                        missing_parameters)))

\* find_and_link reporting the ref it could not find instead of the item id
find_and_link_reports_ref(item, reference_items, library, iteration) ==
    IF item.cost_item_ref \notin DOMAIN reference_items
    THEN Err(UnknownCostItem(item.cost_item_ref))
    ELSE link(item.id, item.parameters, item.quantity,
              reference_items[item.cost_item_ref], library, iteration)

\* LinkedCostItem::find_and_link
find_and_link(item, reference_items, library, iteration) ==
    IF item.cost_item_ref \notin DOMAIN reference_items
    THEN Err(UnknownCostItem(item.id))
    ELSE link(item.id, item.parameters, item.quantity,
              reference_items[item.cost_item_ref], library, iteration)

-----------------------------------------------------------------------------
(* Options (mod.rs) *)

\* CostEstimateOptionsInternal::default()
default_options == [target_currency_rate |-> R(1)]

\* convert_to_internal keeping the rate of the target, not its inverse
convert_to_internal_rate_as_is(target, library) ==
    LET target_currency_code ==
            IF target.some THEN target.v
            ELSE library.currency_conversion.base_currency
        rates == library.currency_conversion.rates
    IN  IF target_currency_code \in DOMAIN rates
        THEN Ok([target_currency_rate |-> rates[target_currency_code]])
        ELSE Err(UnknownCurrencyConversion(target_currency_code))

\* CostEstimateOptions::convert_to_internal
convert_to_internal(target, library) ==
    LET target_currency_code ==
            IF target.some THEN target.v
            ELSE library.currency_conversion.base_currency
        rates == library.currency_conversion.rates
    IN  IF target_currency_code \in DOMAIN rates
        THEN Ok([target_currency_rate |-> RDiv(R(1), rates[target_currency_code])])
        ELSE Err(UnknownCurrencyConversion(target_currency_code))

-----------------------------------------------------------------------------
(* Cost calculator (cost_calculator.rs) *)

YEAR_COUNT == 20

OPERATIONAL_HOURS_PER_YEAR == RMul(RMul(R(24), R(365)), Frac(95, 100))

\* get_currency_factor naming the base currency, not the code it looked up
get_currency_factor_reports_base(library, currency, options) ==
    LET rates == library.currency_conversion.rates
    IN  IF currency \in DOMAIN rates
        THEN Ok(RMul(rates[currency], options.target_currency_rate))
        ELSE Err(UnknownCurrencyConversion(library.currency_conversion.base_currency))

get_currency_factor(library, currency, options) ==
    LET rates == library.currency_conversion.rates
    IN  IF currency \in DOMAIN rates
        THEN Ok(RMul(rates[currency], options.target_currency_rate))
        ELSE Err(UnknownCurrencyConversion(currency))

\* get_inflation_factor taking a year without an entry for uninflated
get_inflation_factor_defaults_to_one(library, year) ==
    LET factors == library.inflation.factors
    IN  IF year \in DOMAIN factors THEN Ok(factors[year]) ELSE Ok(R(1))

get_inflation_factor(library, year) ==
    LET factors == library.inflation.factors
    IN  IF year \in DOMAIN factors
        THEN Ok(factors[year])
        ELSE Err(UnknownInflationFactor(year))

\* product_or_none adding the ratios where the code multiplies them
product_or_none_adds(acc, next) ==
    IF acc.some /\ next.some THEN Some(RAdd(acc.v, next.v)) ELSE None

product_or_none(acc, next) ==
    IF acc.some /\ next.some THEN Some(RMul(acc.v, next.v)) ELSE None

\* sum_or_none keeping the later term alone
sum_or_none_keeps_next(acc, next) ==
    IF acc.some /\ next.some THEN next ELSE None

sum_or_none(acc, next) ==
    IF acc.some /\ next.some THEN Some(RAdd(acc.v, next.v)) ELSE None

\* parameters.get(name)
Get(parameters, name) ==
    IF name \in DOMAIN parameters THEN Some(parameters[name]) ELSE None

\* The formula value of calculate_capex_cost before currency and inflation:
\* None is the value on which the expect panics.
capex_formula(cost_reference_item, parameters) ==
    LET cost == cost_reference_item.capex_contribution.cost
    IN  IF cost.tag = "Linear"
        THEN LET factors ==
                    Map(LAMBDA factor :
                            LET p == Get(parameters, factor.name)
                            IN  IF p.some THEN Some(RDiv(p.v, factor.source_value))
                                ELSE None,
                        cost_reference_item.scaling_factors)
                 reduced == Reduce(product_or_none, factors)
                 scale_factor == IF reduced.some THEN reduced.v ELSE Some(R(1))
             IN  IF scale_factor.some
                 THEN Some(RMul(cost.base_cost, scale_factor.v))
                 ELSE None
        ELSE LET parts ==
                    Map(LAMBDA part :
                            IF part.tag = "Variable"
                            THEN LET value == Get(parameters, part.dimension_name)
                                 IN  IF value.some
                                     THEN Some(RMul(RMul(part.coefficient, value.v),
                                                    part.exponent))
                                     ELSE None
                            ELSE Some(part.value),
                        cost.parameters)
                 reduced == Reduce(sum_or_none, parts)
             IN  IF reduced.some THEN reduced.v ELSE Some(Zero(0))

\* The tail of calculate_capex_cost: the expect on the formula value, then
\* the two factor lookups with `?`, then the product
capex_result(cost, conversion_factor, inflation_factor) ==
    IF ~cost.some THEN Panic
    ELSE IF conversion_factor.tag = "Err" THEN conversion_factor
    ELSE IF inflation_factor.tag = "Err" THEN inflation_factor
    ELSE Ok(Some(RMul(RMul(cost.v, conversion_factor.val), inflation_factor.val)))

\* CostCalculator for CostLibrary :: calculate_capex_cost
calculate_capex_cost(library, cost_reference_item, parameters, options) ==
    capex_result(
        capex_formula(cost_reference_item, parameters),
        get_currency_factor(library, cost_reference_item.capex_contribution.currency,
                            options),
        get_inflation_factor(library,
                             to_string(cost_reference_item.capex_contribution.year)))

\* cost_reference_item.info.cost_type.unwrap_or_default()
cost_type_of(cost_reference_item) ==
    IF cost_reference_item.info.cost_type.some
    THEN cost_reference_item.info.cost_type.v
    ELSE CostTypeDefault

calculate_direct_equipment_cost(library, cost_reference_item, parameters, options) ==
    IF cost_type_of(cost_reference_item) = "DirectEquipmentCost"
    THEN calculate_capex_cost(library, cost_reference_item, parameters, options)
    ELSE Ok(None)

calculate_total_installed_cost(library, cost_reference_item, parameters, options) ==
    IF cost_type_of(cost_reference_item) = "TotalInstalledCost"
    THEN calculate_capex_cost(library, cost_reference_item, parameters, options)
    ELSE Ok(None)

\* variable_opex_item_result with the two factor lookups made before the
\* contribution and the supplied value are looked for
variable_opex_item_result_looks_up_first(vocs, value, cost_per_unit, conversion_factor, inflation_factor) ==
    IF conversion_factor.tag = "Err" THEN conversion_factor
    ELSE IF inflation_factor.tag = "Err" THEN inflation_factor
    ELSE IF vocs = <<>> THEN Ok(None)
    ELSE IF ~value.some THEN Ok(None)
    ELSE Ok(Some(RMul(RMul(RMul(RMul(RMul(value.v, vocs[1].scaled_by),
                                     cost_per_unit),
                                conversion_factor.val),
                           inflation_factor.val),
                      R(YEAR_COUNT))))

\* The body of calculate_variable_opex_cost_item once the contribution named
\* item (vocs, the first of which find returns), the supplied value and the two
\* factor lookups are at hand
variable_opex_item_result(vocs, value, cost_per_unit, conversion_factor, inflation_factor) ==
    IF vocs = <<>> THEN Ok(None)
    ELSE IF ~value.some THEN Ok(None)
    ELSE IF conversion_factor.tag = "Err" THEN conversion_factor
    ELSE IF inflation_factor.tag = "Err" THEN inflation_factor
    ELSE Ok(Some(RMul(RMul(RMul(RMul(RMul(value.v, vocs[1].scaled_by),
                                     cost_per_unit),
                                conversion_factor.val),
                           inflation_factor.val),
                      R(YEAR_COUNT))))

\* calculate_variable_opex_cost_item
calculate_variable_opex_cost_item(library, cost_reference_item, parameters, item, cost_per_unit, options) ==
    variable_opex_item_result(
        SelectSeq(cost_reference_item.variable_opex_contributions,
                  LAMBDA voc : voc.name = item),
        Get(parameters, item),
        cost_per_unit,
        get_currency_factor(library, cost_reference_item.capex_contribution.currency,
                            options),
        get_inflation_factor(library,
                             to_string(cost_reference_item.capex_contribution.year)))

\* The nine categories of calculate_variable_opex_cost, in evaluation order
UtilityUnitCost == RMul(Frac(4, 10), OPERATIONAL_HOURS_PER_YEAR)
TariffUnitCost == RMul(R(20), OPERATIONAL_HOURS_PER_YEAR)

VariableOpexCategories ==
    << [field |-> "electrical_power", item |-> "Electrical power"],
       [field |-> "cooling_water", item |-> "Cooling water (10degC temp rise)"],
       [field |-> "natural_gas", item |-> "Natural gas"],
       [field |-> "steam_hp_superheated",
        item |-> "Steam HP superheat, 600degC and 50bara"],
       [field |-> "steam_lp_saturated",
        item |-> "Steam LP saturated, 160degC and 6.2bara"],
       [field |-> "catalysts_and_chemicals", item |-> "Catalysts and chemicals"],
       [field |-> "equipment_item_rental", item |-> "Equipment item rental"],
       [field |-> "cost_per_tonne_of_co2", item |-> "Cost per tonne of CO2"],
       [field |-> "tariff", item |-> "Tariff paid to storage reservoir owner"] >>

\* cost_per_unit with the unit cost of the utilities for the tariff too
cost_per_unit_of_utilities(field) == UtilityUnitCost

\* The unit cost handed to calculate_variable_opex_cost_item for a category
cost_per_unit(field) ==
    IF field = "tariff" THEN TariffUnitCost ELSE UtilityUnitCost

VariableOpexFields == {c.field : c \in Range(VariableOpexCategories)}

\* The index of the first result that is not Ok, 0 if all are: where a chain
\* of `?` (or a collect into a Result) stops
\* The index of the last result that is not Ok, 0 if all are
LastNotOk(results) ==
    LET stopped == {i \in 1..Len(results) : results[i].tag # "Ok"}
    IN  IF stopped = {} THEN 0 ELSE CHOOSE i \in stopped : \A j \in stopped : j <= i

FirstNotOk(results) ==
    LET stopped == {i \in 1..Len(results) : results[i].tag # "Ok"}
    IN  IF stopped = {} THEN 0 ELSE CHOOSE i \in stopped : \A j \in stopped : i <= j

CategoryIndex(field) ==
    CHOOSE i \in 1..Len(VariableOpexCategories) : VariableOpexCategories[i].field = field

\* VariableOpexCostEstimate { .. } of calculate_variable_opex_cost from the
\* per-category results: the first error returned by `?`, a category without a
\* value set by unwrap_or(0.0)
variable_opex_estimate(results, stop) ==
    IF stop # 0 THEN results[stop]
    ELSE Ok([field \in VariableOpexFields |->
                IF results[CategoryIndex(field)].val.some
                THEN results[CategoryIndex(field)].val.v
                ELSE Zero(0)])

variable_opex_results(library, cost_reference_item, parameters, options) ==
    Map(LAMBDA c : calculate_variable_opex_cost_item(
                       library, cost_reference_item, parameters, c.item,
                       cost_per_unit(c.field), options),
        VariableOpexCategories)

\* calculate_variable_opex_cost
calculate_variable_opex_cost(library, cost_reference_item, parameters, options) ==
    LET results == variable_opex_results(library, cost_reference_item, parameters, options)
    IN  variable_opex_estimate(results, FirstNotOk(results))

\* scale_option taking a product of 0 for an absent cost
scale_option_drops_zero(value, quantity) ==
    IF value.some /\ RMul(value.v, R(quantity)) # Zero(0)
    THEN Some(RMul(value.v, R(quantity))) ELSE None

\* Option<f64>::map(|v| v * quantity as f64)
scale_option(value, quantity) ==
    IF value.some THEN Some(RMul(value.v, R(quantity))) ELSE None

\* item_costs scaling the capital cost by the quantity and leaving the
\* variable opex as calculated
item_costs_opex_unscaled(direct_equipment_cost, total_installed_cost, variable_opex_cost_per_year, quantity) ==
    IF direct_equipment_cost.tag # "Ok" THEN direct_equipment_cost
    ELSE IF total_installed_cost.tag # "Ok" THEN total_installed_cost
    ELSE IF variable_opex_cost_per_year.tag # "Ok" THEN variable_opex_cost_per_year
    ELSE Ok([direct_equipment_cost |-> scale_option(direct_equipment_cost.val, quantity),
             total_installed_cost |-> scale_option(total_installed_cost.val, quantity),
             variable_opex_cost_per_year |-> variable_opex_cost_per_year.val])

\* CostItemCosts of get_costs from its three calculations, each followed by `?`
\* and scaled by the quantity
item_costs(direct_equipment_cost, total_installed_cost, variable_opex_cost_per_year, quantity) ==
    IF direct_equipment_cost.tag # "Ok" THEN direct_equipment_cost
    ELSE IF total_installed_cost.tag # "Ok" THEN total_installed_cost
    ELSE IF variable_opex_cost_per_year.tag # "Ok" THEN variable_opex_cost_per_year
    ELSE Ok([direct_equipment_cost |-> scale_option(direct_equipment_cost.val, quantity),
             total_installed_cost |-> scale_option(total_installed_cost.val, quantity),
             variable_opex_cost_per_year |->
                [field \in VariableOpexFields |->
                    RMul(variable_opex_cost_per_year.val[field], R(quantity))]])

\* LinkedCostItem::get_costs
get_costs(item, options) ==
    item_costs(
        calculate_direct_equipment_cost(item.cost_library, item.cost_reference_item,
                                        item.parameters, options),
        calculate_total_installed_cost(item.cost_library, item.cost_reference_item,
                                       item.parameters, options),
        calculate_variable_opex_cost(item.cost_library, item.cost_reference_item,
                                     item.parameters, options),
        item.quantity)

-----------------------------------------------------------------------------
(* Period costs and spreading (response.rs) *)

\* add_options taking an absent operand for zero
add_options_or_zero(a, b) ==
    Some(RAdd(IF a.some THEN a.v ELSE Zero(0), IF b.some THEN b.v ELSE Zero(0)))

add_options(a, b) ==
    IF a.some /\ b.some THEN Some(RAdd(a.v, b.v))
    ELSE IF a.some THEN a
    ELSE IF b.some THEN b
    ELSE None

\* div_option leaving the value undivided
div_option_undivided(value, rhs) == value

\* Option<f64>::map(|v| v / rhs)
div_option(value, rhs) == IF value.some THEN Some(RDiv(value.v, rhs)) ELSE None

\* derive(Add), derive(Div) on a struct of f64 fields: field by field
FieldsAdd(a, b) == [f \in DOMAIN a |-> RAdd(a[f], b[f])]
FieldsDiv(a, rhs) == [f \in DOMAIN a |-> RDiv(a[f], rhs)]

\* LangFactoredCostEstimate, FixedOpexCostEstimate, VariableOpexCostEstimate
\* ::default()
LangFactoredCostEstimateDefault == [f \in Range(LangFields) |-> Zero(0)]
FixedOpexCostEstimateDefault == [f \in Range(FixedOpexFields) |-> Zero(0)]
VariableOpexCostEstimateDefault == [f \in VariableOpexFields |-> Zero(0)]

\* LangFactoredCostEstimate::total
\* total() leaving the contingency out of the sum
lang_total_without_contingency(lang) ==
    Fold(RAdd, lang[LangFields[1]],
         [i \in 1..Len(LangFields) - 2 |-> lang[LangFields[i + 1]]])

\* the first field + the second + ... + the last
lang_total(lang) ==
    Fold(RAdd, lang[LangFields[1]],
         [i \in 1..Len(LangFields) - 1 |-> lang[LangFields[i + 1]]])

CostItemPeriodCostsDefault ==
    [direct_equipment_cost |-> None, total_installed_cost |-> None,
     variable_opex_cost |-> VariableOpexCostEstimateDefault]

\* impl Div<f64> for CostItemPeriodCosts
CostItemPeriodCosts_div(self, rhs) ==
    [direct_equipment_cost |-> div_option(self.direct_equipment_cost, rhs),
     total_installed_cost |-> div_option(self.total_installed_cost, rhs),
     variable_opex_cost |-> FieldsDiv(self.variable_opex_cost, rhs)]

\* impl Add<CostItemPeriodCosts> for CostItemPeriodCosts
CostItemPeriodCosts_add(self, rhs) ==
    [direct_equipment_cost |->
        add_options(self.direct_equipment_cost, rhs.direct_equipment_cost),
     total_installed_cost |->
        add_options(self.total_installed_cost, rhs.total_installed_cost),
     variable_opex_cost |-> FieldsAdd(self.variable_opex_cost, rhs.variable_opex_cost)]

AssetPeriodCostsDefault ==
    [direct_equipment_cost |-> Zero(0),
     lang_factored_capital_cost |-> LangFactoredCostEstimateDefault,
     total_installed_cost |-> Zero(0),
     fixed_opex_cost |-> FixedOpexCostEstimateDefault,
     variable_opex_cost |-> VariableOpexCostEstimateDefault,
     decommissioning_cost |-> Zero(0)]

\* derive(Div) on AssetPeriodCosts
AssetPeriodCosts_div(self, rhs) ==
    [direct_equipment_cost |-> RDiv(self.direct_equipment_cost, rhs),
     lang_factored_capital_cost |-> FieldsDiv(self.lang_factored_capital_cost, rhs),
     total_installed_cost |-> RDiv(self.total_installed_cost, rhs),
     fixed_opex_cost |-> FieldsDiv(self.fixed_opex_cost, rhs),
     variable_opex_cost |-> FieldsDiv(self.variable_opex_cost, rhs),
     decommissioning_cost |-> RDiv(self.decommissioning_cost, rhs)]

\* derive(Add) on AssetPeriodCosts
AssetPeriodCosts_add(self, rhs) ==
    [direct_equipment_cost |-> RAdd(self.direct_equipment_cost, rhs.direct_equipment_cost),
     lang_factored_capital_cost |->
        FieldsAdd(self.lang_factored_capital_cost, rhs.lang_factored_capital_cost),
     total_installed_cost |-> RAdd(self.total_installed_cost, rhs.total_installed_cost),
     fixed_opex_cost |-> FieldsAdd(self.fixed_opex_cost, rhs.fixed_opex_cost),
     variable_opex_cost |-> FieldsAdd(self.variable_opex_cost, rhs.variable_opex_cost),
     decommissioning_cost |-> RAdd(self.decommissioning_cost, rhs.decommissioning_cost)]

\* The CostItemPeriodCosts spread gives to one year
\* spread_year giving a capital cost of zero, not none, outside construction
spread_year_zero_outside(cost_values, timeline, year, direct_equipment_cost_per_year, total_installed_cost_per_year) ==
    [direct_equipment_cost |->
        IF range_contains(construction_range(timeline), year)
        THEN direct_equipment_cost_per_year ELSE Some(Zero(0)),
     total_installed_cost |->
        IF range_contains(construction_range(timeline), year)
        THEN total_installed_cost_per_year ELSE Some(Zero(0)),
     variable_opex_cost |->
        IF range_contains(operation_range(timeline), year)
        THEN cost_values.variable_opex_cost_per_year
        ELSE VariableOpexCostEstimateDefault]

\* spread_year giving the variable opex to no year of the series
spread_year_without_opex(cost_values, timeline, year, direct_equipment_cost_per_year, total_installed_cost_per_year) ==
    [direct_equipment_cost |->
        IF range_contains(construction_range(timeline), year)
        THEN direct_equipment_cost_per_year ELSE None,
     total_installed_cost |->
        IF range_contains(construction_range(timeline), year)
        THEN total_installed_cost_per_year ELSE None,
     variable_opex_cost |-> VariableOpexCostEstimateDefault]

spread_year(cost_values, timeline, year, direct_equipment_cost_per_year, total_installed_cost_per_year) ==
    [direct_equipment_cost |->
        IF range_contains(construction_range(timeline), year)
        THEN direct_equipment_cost_per_year ELSE None,
     total_installed_cost |->
        IF range_contains(construction_range(timeline), year)
        THEN total_installed_cost_per_year ELSE None,
     variable_opex_cost |->
        IF range_contains(operation_range(timeline), year)
        THEN cost_values.variable_opex_cost_per_year
        ELSE VariableOpexCostEstimateDefault]

\* CostItemCosts::spread: the (year, costs) pairs over the whole range
spread(cost_values, timeline) ==
    Map(LAMBDA year :
            [year |-> year,
             cost |-> spread_year(
                 cost_values, timeline, year,
                 div_option(cost_values.direct_equipment_cost,
                            R(range_len(construction_range(timeline)))),
                 div_option(cost_values.total_installed_cost,
                            R(range_len(construction_range(timeline)))))],
        range_years(timeline_range(timeline)))

-----------------------------------------------------------------------------
(* Asset and request estimation (mod.rs) *)

\* (1.0 + discount_rate).powi((year - start_year).into())
\* discount_factor leaving every year undiscounted
discount_factor_undiscounted(discount_rate, year, start_year) == R(1)

\* year - start_year on Year = i16: a difference out of range panics in a
\* build with overflow checks and wraps in one without
I16Min == -32768
I16Max == 32767

year_offset(year, start_year) ==
    IF I16Min <= year - start_year /\ year - start_year <= I16Max
    THEN Ok(year - start_year)
    ELSE IF overflow_checks THEN Panic
    ELSE Ok(((year - start_year - I16Min) % 65536) + I16Min)

discount_factor(discount_rate, year, start_year) ==
    IF year_offset(year, start_year).tag = "Panic" THEN Panic
    ELSE powi(RAdd(R(1), discount_rate), year_offset(year, start_year).val)

\* Whether the discounting of some year of the timeline panics
discounting_panics(timeline) ==
    \E year \in Range(range_years(timeline_range(timeline))) :
        year_offset(year, timeline_start(timeline)).tag = "Panic"

\* costs_by_year of a cost item: the spread costs and their discounted values
item_costs_by_year(cost_values, timeline, discount_rate) ==
    Map(LAMBDA yc :
            [year |-> yc.year,
             costs_in_year |-> yc.cost,
             dcf_costs_in_year |->
                CostItemPeriodCosts_div(
                    yc.cost,
                    discount_factor(discount_rate, yc.year, timeline_start(timeline)))],
        spread(cost_values, timeline))

\* CostItemCostEstimate { .. } with its two lifetime folds
cost_item_estimate(item, cost_values, costs_by_year) ==
    [id |-> item.id,
     quantity |-> item.quantity,
     costs |-> cost_values,
     lifetime_costs |->
        Fold(CostItemPeriodCosts_add, CostItemPeriodCostsDefault,
             Map(LAMBDA c : c.costs_in_year, costs_by_year)),
     costs_by_year |-> costs_by_year,
     lifetime_dcf_costs |->
        Fold(CostItemPeriodCosts_add, CostItemPeriodCostsDefault,
             Map(LAMBDA c : c.dcf_costs_in_year, costs_by_year))]

\* filter_map(|item| item.costs.<category>).sum()
sum_of_present(options) ==
    Sum(Map(LAMBDA o : o.v, SelectSeq(options, LAMBDA o : o.some)))

lang_factored_capital_cost(direct_equipment_cost, capex_lang_factors) ==
    [f \in Range(LangFields) |-> RMul(direct_equipment_cost, capex_lang_factors[f])]

\* installed_before_items keeping the contingency in
installed_with_contingency(direct_equipment_cost, lang) ==
    RAdd(direct_equipment_cost, lang_total(lang))

\* direct_equipment_cost + lang.total() - lang.contingency
installed_before_items(direct_equipment_cost, lang) ==
    RSub(RAdd(direct_equipment_cost, lang_total(lang)), lang.contingency)

fixed_opex_cost_per_year(total_installed_cost, opex_factors) ==
    [f \in Range(FixedOpexFields) |-> RMul(total_installed_cost, opex_factors[f])]

\* asset_costs taking the decommissioning cost from the total installed cost,
\* the items' own included
asset_costs_decommissioning_of_total(asset, direct_equipment_cost, lang, sum_total_installed_cost, variable_opex_cost_per_year) ==
    [direct_equipment_cost |-> direct_equipment_cost,
     lang_factored_capital_cost |-> lang,
     total_installed_cost |->
        RAdd(installed_before_items(direct_equipment_cost, lang),
             sum_total_installed_cost),
     fixed_opex_cost_per_year |->
        fixed_opex_cost_per_year(
            RAdd(installed_before_items(direct_equipment_cost, lang),
                 sum_total_installed_cost),
            asset.opex_factors),
     variable_opex_cost_per_year |-> variable_opex_cost_per_year,
     decommissioning_cost |->
        RMul(RAdd(installed_before_items(direct_equipment_cost, lang),
                  sum_total_installed_cost),
             Frac(1, 10))]

\* AssetCosts { .. } from the two sums over the items and the folded variable opex
asset_costs(asset, direct_equipment_cost, lang, sum_total_installed_cost, variable_opex_cost_per_year) ==
    [direct_equipment_cost |-> direct_equipment_cost,
     lang_factored_capital_cost |-> lang,
     total_installed_cost |->
        RAdd(installed_before_items(direct_equipment_cost, lang),
             sum_total_installed_cost),
     fixed_opex_cost_per_year |->
        fixed_opex_cost_per_year(
            RAdd(installed_before_items(direct_equipment_cost, lang),
                 sum_total_installed_cost),
            asset.opex_factors),
     variable_opex_cost_per_year |-> variable_opex_cost_per_year,
     decommissioning_cost |->
        RMul(installed_before_items(direct_equipment_cost, lang), Frac(1, 10))]

\* The values of estimate_asset_cost between "Build the cost values" and
\* "Spread cost values across years"
asset_costs_of(asset, cost_items, direct_equipment_cost) ==
    asset_costs(
        asset,
        direct_equipment_cost,
        lang_factored_capital_cost(direct_equipment_cost, asset.capex_lang_factors),
        sum_of_present(Map(LAMBDA item : item.costs.total_installed_cost, cost_items)),
        Fold(FieldsAdd, VariableOpexCostEstimateDefault,
             Map(LAMBDA item : item.costs.variable_opex_cost_per_year, cost_items)))

\* The AssetPeriodCosts of one year: each category gated to its range
asset_costs_in_year(cost_values, timeline, year) ==
    [direct_equipment_cost |->
        IF range_contains(construction_range(timeline), year)
        THEN RDiv(cost_values.direct_equipment_cost, R(range_len(construction_range(timeline))))
        ELSE Zero(0),
     lang_factored_capital_cost |->
        IF range_contains(construction_range(timeline), year)
        THEN FieldsDiv(cost_values.lang_factored_capital_cost,
                       R(range_len(construction_range(timeline))))
        ELSE LangFactoredCostEstimateDefault,
     total_installed_cost |->
        IF range_contains(construction_range(timeline), year)
        THEN RDiv(cost_values.total_installed_cost, R(range_len(construction_range(timeline))))
        ELSE Zero(0),
     fixed_opex_cost |->
        IF range_contains(operation_range(timeline), year)
        THEN cost_values.fixed_opex_cost_per_year ELSE FixedOpexCostEstimateDefault,
     variable_opex_cost |->
        IF range_contains(operation_range(timeline), year)
        THEN cost_values.variable_opex_cost_per_year ELSE VariableOpexCostEstimateDefault,
     decommissioning_cost |->
        IF range_contains(decommissioning_range(timeline), year)
        THEN RDiv(cost_values.decommissioning_cost, R(range_len(decommissioning_range(timeline))))
        ELSE Zero(0)]

\* YearAssetCosts { year, costs_in_year, dcf_costs_in_year }
year_asset_costs(year, costs_in_year, factor) ==
    [year |-> year,
     costs_in_year |-> costs_in_year,
     dcf_costs_in_year |-> AssetPeriodCosts_div(costs_in_year, factor)]

\* costs_by_year of the asset
asset_costs_by_year(cost_values, timeline, discount_rate) ==
    Map(LAMBDA year :
            year_asset_costs(
                year,
                asset_costs_in_year(cost_values, timeline, year),
                discount_factor(discount_rate, year, timeline_start(timeline))),
        range_years(timeline_range(timeline)))

\* AssetCostEstimate { .. } with its two lifetime folds
asset_cost_estimate(asset, cost_items, cost_values, costs_by_year) ==
    [id |-> asset.id,
     cost_items |-> cost_items,
     costs |-> cost_values,
     costs_by_year |-> costs_by_year,
     lifetime_costs |->
        Fold(AssetPeriodCosts_add, AssetPeriodCostsDefault,
             Map(LAMBDA c : c.costs_in_year, costs_by_year)),
     lifetime_dcf_costs |->
        Fold(AssetPeriodCosts_add, AssetPeriodCostsDefault,
             Map(LAMBDA c : c.dcf_costs_in_year, costs_by_year))]

\* estimate_asset_cost from the cost item estimates on
asset_estimate_of(asset, cost_items, cost_values) ==
    asset_cost_estimate(
        asset, cost_items, cost_values,
        asset_costs_by_year(cost_values, asset.timeline, asset.discount_rate))

asset_estimate_from(asset, cost_items) ==
    asset_estimate_of(
        asset, cost_items,
        asset_costs_of(
            asset, cost_items,
            sum_of_present(Map(LAMBDA item : item.costs.direct_equipment_cost,
                               cost_items))))

\* AssetCostEstimate of estimate_asset_cost from the linked items and their
\* cost results; collect::<Result<Vec<_>, _>>()? stops at the first item that is
\* not Ok. A panic of the discounting strikes with the first item whose costs
\* are Ok, or with the asset's own years when it has no items.
asset_estimate(asset, linked_cost_items, cost_results, stop) ==
    IF stop # 1 /\ discounting_panics(asset.timeline) THEN Panic
    ELSE IF stop # 0 THEN cost_results[stop]
    ELSE Ok(asset_estimate_from(
                asset,
                [i \in 1..Len(linked_cost_items) |->
                    cost_item_estimate(
                        linked_cost_items[i], cost_results[i].val,
                        item_costs_by_year(cost_results[i].val, asset.timeline,
                                           asset.discount_rate))]))

item_cost_results(linked_cost_items, options) ==
    Map(LAMBDA item : get_costs(item, options), linked_cost_items)

\* asset_result calculating the costs of the linked items before it looks at
\* the linking errors
asset_result_costs_first(asset, linking, options) ==
    LET cost_results == item_cost_results(linking.oks, options)
    IN  IF FirstNotOk(cost_results) # 0
        THEN cost_results[FirstNotOk(cost_results)]
        ELSE IF linking.errors # <<>>
        THEN Err(Reduce(combine, linking.errors).v)
        ELSE asset_estimate(asset, linking.oks, cost_results, 0)

\* estimate_asset_cost after the linking: the early return on linking errors,
\* else the cost items
asset_result(asset, linking, options) ==
    IF linking.errors # <<>>
    THEN Err(Reduce(combine, linking.errors).v)
    ELSE LET cost_results == item_cost_results(linking.oks, options)
         IN  asset_estimate(asset, linking.oks, cost_results, FirstNotOk(cost_results))

link_results(library, asset, iteration_of) ==
    [i \in 1..Len(asset.cost_items) |->
        find_and_link(asset.cost_items[i], cost_reference_items(library), library,
                      iteration_of[i])]

\* estimate_asset_cost. iteration_of[i] is the HashSet iteration order met by
\* the link of the i-th cost item.
estimate_asset_cost(library, asset, options, iteration_of) ==
    asset_result(asset, partition_results(link_results(library, asset, iteration_of)),
                 options)

\* CostEstimateResponse
OkResponse(estimate) == [status |-> "Ok", body |-> estimate]
DataError(error) == [status |-> "DataError", body |-> error]
Panicked == [status |-> "Panic"]
CostLibraryNotFound(id) == [status |-> "CostLibraryNotFound", body |-> [library_id |-> id]]

\* The response of estimate_cost from the per-asset results; a panic of any
\* asset unwinds through partition_results, which consumes them all
request_response(results, parts) ==
    IF \E j \in 1..Len(results) : results[j].tag = "Panic"
    THEN Panicked
    ELSE IF parts.errors # <<>>
    THEN DataError(Reduce(combine, parts.errors).v)
    ELSE OkResponse([assets |-> parts.oks])

asset_results(library, request_assets, options, iteration_of) ==
    [j \in 1..Len(request_assets) |->
        estimate_asset_cost(library, request_assets[j], options, iteration_of[j])]

\* estimate_cost after convert_to_internal
estimate_with(internal_options, library, request_assets, iteration_of) ==
    IF internal_options.tag = "Err"
    THEN DataError(internal_options.err)
    ELSE LET results == asset_results(library, request_assets, internal_options.val,
                                      iteration_of)
         IN  request_response(results, partition_results(results))

\* estimate_cost. iteration_of[j][i] is the iteration order met by the link of
\* cost item i of asset j.
estimate_cost(library, request_assets, options, iteration_of) ==
    estimate_with(convert_to_internal(options, library), library, request_assets,
                  iteration_of)

-----------------------------------------------------------------------------
(* Inputs *)

\* The parameter names of the two libraries, in one order
ParamNames == <<"length", "depth", "Electrical power", "Thermal Duty", "Captured CO2">>
PoolNames == {"length", "depth", "Electrical power"}
ParamValues == {Zero(0), R(30), R(100)}

P(length, depth, power) ==
    [name \in {"length", "depth", "Electrical power"} |->
        IF name = "length" THEN R(length)
        ELSE IF name = "depth" THEN R(depth) ELSE R(power)]

Restrict(f, S) == [x \in S |-> f[x]]

\* Any order in which the iteration of a HashSet brings out these names
HashOrders(names) == {order \in [1..Cardinality(names) -> names] : Range(order) = names}

\* The names link collects into required_parameters for the item, none when
\* the library holds no item under the reference
required_parameters_of(item, library) ==
    IF item.cost_item_ref \in DOMAIN cost_reference_items(library)
    THEN LET cost_reference_item == cost_reference_items(library)[item.cost_item_ref]
         IN  {f.name : f \in Range(cost_reference_item.scaling_factors)}
             \cup {c.name : c \in Range(cost_reference_item.variable_opex_contributions)}
    ELSE {}

LibraryItemIds(library) == DOMAIN cost_reference_items(library)
UnknownRef == "Item 999"

\* A parameter under the name of each of the nine categories, no two of the
\* same value
CategoryItems == {VariableOpexCategories[k].item : k \in DOMAIN VariableOpexCategories}

CategoryParameters ==
    [name \in CategoryItems |->
        R(10 + CHOOSE k \in DOMAIN VariableOpexCategories :
                    VariableOpexCategories[k].item = name)]

\* Cost items supplying all nine of them, or all but one, on the items that
\* declare contributions to categories, on one that declares another
\* contribution and on two that declare none
CostItemsOpex ==
    {CostItemParameters("c1", ref, 1, Restrict(CategoryParameters, CategoryItems \ left_out)) :
        ref \in {"Item 070", "Item 071", "Item 072", "Item 010", "Item 060", "Item 040",
                 "Item 001"},
        left_out \in {{}} \cup {{name} : name \in CategoryItems}}

\* Single cost items handed to the linker with the library of mod.rs: on
\* every item with the parameters of PoolNames (but on Item 070, which then
\* lacks eight names or nine), and those of CostItemsOpex
CostItems ==
    {CostItemParameters("c1", ref, quantity, parameters) :
        ref \in (LibraryItemIds(Library) \ {"Item 070"}) \cup {UnknownRef},
        quantity \in {0, 1, 3},
        parameters \in UNION {[S -> ParamValues] : S \in SUBSET PoolNames}}
    \cup CostItemsOpex

\* The cost items of the tests made on the library of V1.1_working, in the
\* order of the tests: test_find_and_link, .._missing_parameters,
\* .._unknown_cost_item, test_calculate_variable_opex_cost,
\* test_calculate_direct_equipment_cost_linear, .._polynomial
V1_1Parameters(thermal_duty, captured_co2, electrical_power) ==
    [name \in {"Thermal Duty", "Captured CO2", "Electrical power"} |->
        IF name = "Thermal Duty" THEN thermal_duty
        ELSE IF name = "Captured CO2" THEN captured_co2 ELSE electrical_power]

CostItemsV1_1 ==
    { CostItemParameters("a1", "Item 074", 1, V1_1Parameters(R(100), R(200), R(300))),
      CostItemParameters("a1", "Item 074", 1,
                         Restrict(V1_1Parameters(R(0), R(200), R(0)), {"Captured CO2"})),
      CostItemParameters("a1", UnknownRef, 1,
                         Restrict(V1_1Parameters(R(0), R(200), R(0)), {"Captured CO2"})),
      CostItemParameters("a1", "Item 074", 1,
                         Restrict(V1_1Parameters(Frac(1, 10), R(0), R(20)),
                                  {"Electrical power", "Thermal Duty"})),
      CostItemParameters("a1", "Item 074", 1,
                         Restrict(V1_1Parameters(R(0), R(20), R(0)), {"Captured CO2"})),
      CostItemParameters("a1", "Item 058", 1, Restrict(P(20, 0, 0), {"length"})) }

\* The cost items handed to the linker with a library
CostItemsOn(library) == IF library = LibraryV1_1 THEN CostItemsV1_1 ELSE CostItems

\* Cost items of whole requests, one of each outcome: two that cost (a direct
\* equipment cost item, a total installed cost item with variable opex), one
\* that misses two names, two of unknown reference, one of unknown currency,
\* one of unknown year, one whose polynomial reads an unsupplied dimension
ItemPool ==
    { CostItemParameters("c1", "Item 001", 1, Restrict(P(100, 30, 0), {"length", "depth"})),
      CostItemParameters("c2", "Item 010", 2,
                         Restrict(P(100, 0, 20), {"length", "Electrical power"})),
      CostItemParameters("c3", "Item 001", 1, EmptyParameters),
      CostItemParameters("c4", UnknownRef, 1, Restrict(P(100, 0, 0), {"length"})),
      CostItemParameters("c5", UnknownRef, 1, EmptyParameters),
      CostItemParameters("c6", "Item 020", 1, EmptyParameters),
      CostItemParameters("c7", "Item 030", 1, EmptyParameters),
      CostItemParameters("c8", "Item 059", 1, Restrict(P(100, 0, 0), {"length"})) }

\* The ways to cut n items into a consecutive groups: group j is c[j-1]+1..c[j]
Cuts(a, n) ==
    {c \in [0..a -> 0..n] :
        /\ c[0] = 0
        /\ c[a] = n
        /\ \A j \in 1..a : c[j - 1] <= c[j]}

\* The timeline, factors and discount rate of test_can_create_estimate
TestTimeline == Timeline(2025, 2025, 2026, 2026, 2027, 2027)
TestDiscountRate == Frac(1, 10)

\* The asset list in which the items of s are dealt, in order, to a assets
Deal(a, s, c) ==
    [j \in 1..a |->
        AssetParameters("a" \o to_string(j), TestTimeline, CapexLangFactorsDefault,
                        FixedOpexFactorsDefault, SubSeq(s, c[j - 1] + 1, c[j]),
                        TestDiscountRate)]

\* Every request of at most MaxAssets assets holding at most MaxItems cost
\* items in all
Requests ==
    UNION {UNION {{Deal(a, s, c) : s \in [1..n -> ItemPool], c \in Cuts(a, n)} :
                  n \in 0..MaxItems} :
           a \in 0..MaxAssets}

\* Timelines of any six years, ordered or not
FirstYear == 2025
Years == FirstYear..(FirstYear + MaxSpan)
Timelines ==
    {Timeline(cs, cf, os, of, ds, df) :
        cs \in Years, cf \in Years, os \in Years, of \in Years, ds \in Years,
        df \in Years}

\* Lang and fixed-opex factors other than the defaults, no two alike
CapexLangFactorsOther == [f \in Range(LangFields) |->
    Frac((CHOOSE i \in 1..Len(LangFields) : LangFields[i] = f), 4)]
FixedOpexFactorsOther == [f \in Range(FixedOpexFields) |->
    Frac((CHOOSE i \in 1..Len(FixedOpexFields) : FixedOpexFields[i] = f), 8)]

\* Cost items that link and cost: those of ItemPool and a second direct
\* equipment cost item, of quantity 3, priced in EUR at 2023
CostedItem1 ==
    CostItemParameters("c1", "Item 001", 1, Restrict(P(100, 30, 0), {"length", "depth"}))
CostedItem2 ==
    CostItemParameters("c2", "Item 010", 2,
                       Restrict(P(100, 0, 20), {"length", "Electrical power"}))
CostedItem3 ==
    CostItemParameters("c9", "Item 003", 3, Restrict(P(30, 100, 0), {"length", "depth"}))

\* Discount rate, Lang factors, fixed-opex factors and cost items of an
\* asset: the one of the test undiscounted, and one of three items with
\* factors that all differ
AssetSettings ==
    { [discount_rate |-> Zero(0), capex_lang_factors |-> CapexLangFactorsDefault,
       opex_factors |-> FixedOpexFactorsDefault, cost_items |-> <<CostedItem1>>],
      [discount_rate |-> Frac(1, 2), capex_lang_factors |-> CapexLangFactorsOther,
       opex_factors |-> FixedOpexFactorsOther,
       cost_items |-> <<CostedItem1, CostedItem2, CostedItem3>>] }

\* Requests of one asset whose items all cost, over every timeline
AssetRequests ==
    {<<AssetParameters("a1", timeline, settings.capex_lang_factors,
                       settings.opex_factors, settings.cost_items,
                       settings.discount_rate)>> :
        timeline \in Timelines, settings \in AssetSettings}

\* Timelines whose last year lies more than I16Max years after the first:
\* the one of three single years, and the whole range of i16 under construction
WideTimelines ==
    { Timeline(-1, -1, 0, 0, I16Max, I16Max),
      Timeline(I16Min, I16Max, 0, 0, I16Max, I16Max) }

\* Requests of one asset over such a timeline: with the item of the test, and
\* without cost items
WideRequests ==
    {<<AssetParameters("a1", timeline, CapexLangFactorsDefault, FixedOpexFactorsDefault,
                       cost_items, TestDiscountRate)>> :
        timeline \in WideTimelines, cost_items \in {<<CostedItem1>>, <<>>}}

\* No target currency, one the rate table holds, one it does not hold
Targets == {None, Some("EUR"), Some("USD")}

ErrorSamples ==
    { MissingProperties(<<MissingProperty("c1", "length")>>),
      MissingProperties(<<MissingProperty("c1", "length"), MissingProperty("c1", "depth")>>),
      MissingProperties(<<MissingProperty("c2", "depth")>>),
      UnknownCostItem("c1"), UnknownCostItem("c2"),
      UnknownCurrencyConversion("KHR"), UnknownCurrencyConversion("USD"),
      UnknownInflationFactor("1066"), UnknownInflationFactor("1999") }

ErrorLists == UNION {[1..n -> ErrorSamples] : n \in 1..MaxErrors}

-----------------------------------------------------------------------------
(* The calls *)

NoResponse == [status |-> "None"]
NoResult == [tag |-> "None"]
NoItem == [id |-> "none"]

\* No fold of period costs and no local server in a costing call
NoFold ==
    /\ period_costs = <<>>
    /\ lifetime = NoResult

\* No discounting on its own
NoCall == [year |-> 0]
NoDiscount ==
    /\ discounting = NoCall
    /\ discounted_by = NoResult

NoServer ==
    /\ process = None
    /\ lock = None
    /\ threads = <<>>
    /\ alive = {}
    /\ spawned = 0
    /\ killed = {}
    /\ listening = {}

\* A request under each id when it has no assets, under one known and one
\* unknown id otherwise. Its assets have the timeline of the test, on which
\* no difference of years leaves the range of i16: both builds estimate it
\* alike, and one is taken.
InitRequest ==
    /\ pc = "request"
    /\ cost_libraries \in Apis
    /\ cost_library = NoLibrary
    /\ target_currency \in Targets
    /\ assets \in Requests
    /\ library_id \in IF assets = <<>> THEN LibraryIds \cup UnknownIds
                      ELSE {"V2.0"} \cup UnknownIds
    /\ response = NoResponse
    /\ cost_item = NoItem
    /\ linked = NoResult
    /\ costs = NoResult
    /\ opex = NoResult
    /\ errors = <<>>
    /\ combined = None
    /\ hash_order = <<>>
    /\ NoFold
    /\ NoDiscount
    /\ overflow_checks = FALSE
    /\ NoServer

\* A request of one asset whose items all cost, in a build with overflow
\* checks or in one without. A request over a wide timeline is estimated with
\* the checks, where the estimate ends at the first year out of the range of
\* i16; the series of more than I16Max years that the build without them
\* returns is not computed here, and DiscountFactor gives its divisors.
InitAsset ==
    /\ pc = "request"
    /\ cost_libraries \in Apis
    /\ library_id = "V1.3"
    /\ cost_library = NoLibrary
    /\ target_currency = None
    /\ overflow_checks \in BOOLEAN
    /\ assets \in IF overflow_checks THEN AssetRequests \cup WideRequests
                 ELSE AssetRequests
    /\ response = NoResponse
    /\ cost_item = NoItem
    /\ linked = NoResult
    /\ costs = NoResult
    /\ opex = NoResult
    /\ errors = <<>>
    /\ combined = None
    /\ hash_order = <<>>
    /\ NoFold
    /\ NoDiscount
    /\ NoServer

InitItem ==
    /\ pc = "item"
    /\ cost_libraries = NoApi
    /\ library_id = NoLibraryId
    /\ cost_library \in Libraries
    /\ target_currency \in {None, Some("EUR")}
    /\ assets = <<>>
    /\ response = NoResponse
    /\ cost_item \in CostItemsOn(cost_library)
    /\ linked = NoResult
    /\ costs = NoResult
    /\ opex = NoResult
    /\ errors = <<>>
    /\ combined = None
    /\ hash_order = <<>>
    /\ NoFold
    /\ NoDiscount
    /\ overflow_checks = FALSE
    /\ NoServer

InitErrors ==
    /\ pc = "errors"
    /\ cost_libraries = NoApi
    /\ library_id = NoLibraryId
    /\ cost_library = NoLibrary
    /\ target_currency = None
    /\ assets = <<>>
    /\ response = NoResponse
    /\ cost_item = NoItem
    /\ linked = NoResult
    /\ costs = NoResult
    /\ opex = NoResult
    /\ errors \in ErrorLists
    /\ combined = None
    /\ hash_order = <<>>
    /\ NoFold
    /\ NoDiscount
    /\ overflow_checks = FALSE
    /\ NoServer

\* No costing call in progress
NoEstimate ==
    /\ cost_libraries = NoApi
    /\ library_id = NoLibraryId
    /\ cost_library = NoLibrary
    /\ target_currency = None
    /\ assets = <<>>
    /\ response = NoResponse
    /\ cost_item = NoItem
    /\ linked = NoResult
    /\ costs = NoResult
    /\ opex = NoResult
    /\ errors = <<>>
    /\ combined = None
    /\ hash_order = <<>>

\* Yearly costs of an item: each capital category absent, present and zero,
\* or present and not zero; variable opex zero or not
PeriodCostValues ==
    {[direct_equipment_cost |-> direct_equipment_cost,
      total_installed_cost |-> total_installed_cost,
      variable_opex_cost |-> variable_opex_cost] :
        direct_equipment_cost \in {None, Some(Zero(0)), Some(R(60))},
        total_installed_cost \in {None, Some(R(7))},
        variable_opex_cost \in
            {VariableOpexCostEstimateDefault,
             [VariableOpexCostEstimateDefault EXCEPT !["tariff"] = Frac(5, 2)]}}

PeriodCostLists == UNION {[1..n -> PeriodCostValues] : n \in 0..MaxPeriods}

InitFold ==
    /\ pc = "fold"
    /\ NoEstimate
    /\ NoDiscount
    /\ overflow_checks = FALSE
    /\ period_costs \in PeriodCostLists
    /\ lifetime = NoResult
    /\ NoServer

\* The thread of the auto-start and the invocations of the two commands
AutoStartThread == 0
CommandThreads == 1..MaxCommands
Threads == {AutoStartThread} \cup CommandThreads

Unit == <<>>

\* LocalServer::new(3001)
Port == 3001

\* Processes that are no children of the server (the children are numbered
\* from 1 as they are spawned): one that may listen on the port, one that may
\* be connected to it
Foreign == {-1}
Clients == {-2}

\* A thread that has not called yet: where it is, the call it makes, the child
\* stop() took out of the server, the pids lsof printed, the Result the call
\* returned
Idle == [pc |-> "idle", op |-> "none", child |-> None, pids |-> {}, result |-> NoResult]

\* ServerState::new(LocalServer::new(3001)) and no thread running yet
InitServer ==
    /\ pc = "server"
    /\ NoEstimate
    /\ NoFold
    /\ NoDiscount
    /\ overflow_checks = FALSE
    /\ process = None
    /\ lock = None
    /\ threads = [t \in Threads |-> Idle]
    /\ alive = {}
    /\ spawned = 0
    /\ killed = {}
    /\ listening = {}

\* The years at the ends and in the middle of i16, and those of the requests
DiscountYears == {I16Min, -1, 0, FirstYear, FirstYear + MaxSpan, I16Max}
DiscountRates == {Zero(0), Frac(1, 10), Frac(-1, 2)}

\* The discounting of a year of timeline.range(), which starts at start_year,
\* in a build with overflow checks and in one without
InitDiscount ==
    /\ pc = "discount"
    /\ NoEstimate
    /\ NoFold
    /\ NoServer
    /\ overflow_checks \in BOOLEAN
    /\ discounting \in {d \in [discount_rate : DiscountRates, year : DiscountYears,
                                start_year : DiscountYears] : d.start_year <= d.year}
    /\ discounted_by = NoResult

Init ==
    \/ InitRequest
    \/ InitAsset
    \/ InitItem
    \/ InitErrors
    \/ InitFold
    \/ InitDiscount
    \/ InitServer

\* The cost items of the request whose link reports two or more missing names:
\* only for these does the iteration order show in the result.
OrderSensitive(request_assets, library) ==
    {<<j, i>> \in UNION {{<<j, i>> : i \in 1..Len(request_assets[j].cost_items)} :
                         j \in 1..Len(request_assets)} :
        LET r == find_and_link(request_assets[j].cost_items[i],
                               cost_reference_items(library), library, ParamNames)
        IN  /\ r.tag = "Err"
            /\ r.err.type = "MissingProperties"
            /\ Len(r.err.properties) >= 2}

\* create_cost_estimate with a library under library_id: estimate_cost on
\* the request
EstimateCost ==
    /\ pc = "request"
    /\ library_id \in DOMAIN cost_libraries
    /\ cost_library' = cost_libraries[library_id]
    /\ \E reversed \in SUBSET OrderSensitive(assets, cost_library') :
          /\ hash_order' =
                [j \in 1..Len(assets) |->
                    [i \in 1..Len(assets[j].cost_items) |->
                        IF <<j, i>> \in reversed THEN Reverse(ParamNames)
                        ELSE ParamNames]]
          /\ response' = estimate_cost(cost_library', assets, target_currency, hash_order')
    /\ pc' = "responded"
    /\ UNCHANGED <<cost_libraries, library_id, target_currency, assets, cost_item, linked, costs,
                   errors, combined>>
    /\ UNCHANGED <<opex, fold_vars, discount_vars, server_vars>>

\* create_cost_estimate without one: the 404 response, estimate_cost not called
LibraryNotFound ==
    /\ pc = "request"
    /\ library_id \notin DOMAIN cost_libraries
    /\ response' = CostLibraryNotFound(library_id)
    /\ pc' = "not_found"
    /\ UNCHANGED <<cost_libraries, library_id, cost_library, target_currency, assets, cost_item, linked,
                   costs, errors, combined, hash_order>>
    /\ UNCHANGED <<opex, fold_vars, discount_vars, server_vars>>

\* POST /cost/estimate
create_cost_estimate == EstimateCost \/ LibraryNotFound

\* LinkedCostItem::find_and_link on one cost item. The iteration brings out
\* the required names that are not supplied in any order; where it passes the
\* supplied ones does not show.
FindAndLink ==
    /\ pc = "item"
    /\ \E order \in HashOrders(required_parameters_of(cost_item, cost_library)
                              \ DOMAIN cost_item.parameters) :
          linked' = find_and_link(cost_item, cost_reference_items(cost_library),
                                  cost_library, order)
    /\ pc' = "linked"
    /\ UNCHANGED <<cost_libraries, library_id, cost_library, target_currency, assets, response, cost_item, costs,
                   errors, combined, hash_order>>
    /\ UNCHANGED <<opex, fold_vars, discount_vars, server_vars>>

\* LinkedCostItem::get_costs on the linked item
GetCosts ==
    /\ pc = "linked"
    /\ linked.tag = "Ok"
    /\ convert_to_internal(target_currency, cost_library).tag = "Ok"
    /\ costs' = get_costs(linked.val, convert_to_internal(target_currency, cost_library).val)
    /\ pc' = "costed"
    /\ UNCHANGED <<cost_libraries, library_id, cost_library, target_currency, assets, response, cost_item, linked,
                   errors, combined, hash_order>>
    /\ UNCHANGED <<opex, fold_vars, discount_vars, server_vars>>

\* CostCalculator::calculate_variable_opex_cost on the reference item the
\* cost item names and the parameters it supplies, linked or not
CalculateVariableOpexCost ==
    /\ pc = "item"
    /\ cost_item.cost_item_ref \in DOMAIN cost_reference_items(cost_library)
    /\ convert_to_internal(target_currency, cost_library).tag = "Ok"
    /\ opex' = calculate_variable_opex_cost(
                    cost_library,
                    cost_reference_items(cost_library)[cost_item.cost_item_ref],
                    cost_item.parameters,
                    convert_to_internal(target_currency, cost_library).val)
    /\ pc' = "opex"
    /\ UNCHANGED <<cost_libraries, library_id, cost_library, target_currency, assets, response, cost_item, linked,
                   costs, errors, combined, hash_order, fold_vars, discount_vars,
                   server_vars>>

\* errors.into_iter().reduce(|acc, err| acc.combine(err))
ReduceErrors ==
    /\ pc = "errors"
    /\ combined' = Reduce(combine, errors)
    /\ pc' = "reduced"
    /\ UNCHANGED <<cost_libraries, library_id, cost_library, target_currency, assets, response, cost_item, linked,
                   costs, errors, hash_order>>
    /\ UNCHANGED <<opex, fold_vars, discount_vars, server_vars>>

costing_vars == <<cost_libraries, library_id, cost_library, target_currency, assets, response, cost_item, linked,
                  costs, opex, errors, combined, hash_order>>

\* self + rhs on two CostItemPeriodCosts, in either operand order
AddPeriodCosts ==
    /\ pc = "fold"
    /\ Len(period_costs) = 2
    /\ lifetime' = <<CostItemPeriodCosts_add(period_costs[1], period_costs[2]),
                     CostItemPeriodCosts_add(period_costs[2], period_costs[1])>>
    /\ pc' = "added"
    /\ UNCHANGED <<costing_vars, period_costs, discount_vars, server_vars>>

\* .fold(CostItemPeriodCosts::default(), |acc, costs| acc + *costs)
FoldPeriodCosts ==
    /\ pc = "fold"
    /\ lifetime' = Fold(CostItemPeriodCosts_add, CostItemPeriodCostsDefault, period_costs)
    /\ pc' = "folded"
    /\ UNCHANGED <<costing_vars, period_costs, discount_vars, server_vars>>

\* (1.0 + asset.discount_rate).powi((year - start_year).into()) of one year
DiscountFactor ==
    /\ pc = "discount"
    /\ discounted_by' =
          IF year_offset(discounting.year, discounting.start_year).tag = "Panic"
          THEN Panic
          ELSE Ok(discount_factor(discounting.discount_rate, discounting.year,
                                  discounting.start_year))
    /\ pc' = "discounted"
    /\ UNCHANGED <<costing_vars, fold_vars, overflow_checks, discounting, server_vars>>

\* The io::Error of a failed Child::kill and of a failed Command::spawn, one
\* text for each
KillResults == {Ok(Unit), Err("Operation not permitted (os error 1)")}
SpawnErrors == {"No such file or directory (os error 2)"}

\* LocalServer::stop with kill() leaving the handle in place when it fails
stop_keeps_handle_on_error(tracked, kill_result) ==
    [process |-> IF tracked.some /\ kill_result.tag = "Err" THEN tracked ELSE None,
     child |-> tracked,
     result |-> IF tracked.some /\ kill_result.tag = "Err"
                THEN Err("Failed to stop server: " \o kill_result.err)
                ELSE Ok(Unit)]

\* LocalServer::stop on the tracked process: process.take(), kill() on the
\* child taken, the error of which `?` returns. kill() sends the signal and
\* returns: the child still runs, and holds the port if it did, until it dies
\* of it (ChildExit).
stop(tracked, kill_result) ==
    [process |-> None,
     child |-> tracked,
     result |-> IF tracked.some /\ kill_result.tag = "Err"
                THEN Err("Failed to stop server: " \o kill_result.err)
                ELSE Ok(Unit)]

\* The children kill() has been called on
with_killed(children, child) ==
    IF child.some THEN children \cup {child.v} ELSE children

\* The message of start() when the second bind fails
PortInUse(port) ==
    "Port " \o to_string(port)
        \o " is still in use after attempting to free it."
        \o " Please manually stop any process using this port."

\* The auto-start thread of setup, after its sleep, reaches the lock
AutoStart ==
    /\ pc = "server"
    /\ threads[AutoStartThread].pc = "idle"
    /\ threads' = [threads EXCEPT ![AutoStartThread].pc = "lock",
                                  ![AutoStartThread].op = "start"]
    /\ UNCHANGED <<process, lock, alive, spawned, killed, listening>>
    /\ UNCHANGED <<costing_vars, fold_vars, discount_vars, pc>>

\* The front end invokes start_local_server
StartLocalServer(t) ==
    /\ pc = "server"
    /\ threads[t].pc = "idle"
    /\ threads' = [threads EXCEPT ![t].pc = "lock", ![t].op = "start"]
    /\ UNCHANGED <<process, lock, alive, spawned, killed, listening>>
    /\ UNCHANGED <<costing_vars, fold_vars, discount_vars, pc>>

\* The front end invokes stop_local_server
StopLocalServer(t) ==
    /\ pc = "server"
    /\ threads[t].pc = "idle"
    /\ threads' = [threads EXCEPT ![t].pc = "lock", ![t].op = "stop"]
    /\ UNCHANGED <<process, lock, alive, spawned, killed, listening>>
    /\ UNCHANGED <<costing_vars, fold_vars, discount_vars, pc>>

\* server.0.lock().unwrap(): the thread enters start() or stop()
Lock(t) ==
    /\ pc = "server"
    /\ threads[t].pc = "lock"
    /\ lock = None
    /\ lock' = Some(t)
    /\ threads' = [threads EXCEPT ![t].pc = threads[t].op]
    /\ UNCHANGED <<process, alive, spawned, killed, listening>>
    /\ UNCHANGED <<costing_vars, fold_vars, discount_vars, pc>>

\* start(): if self.process.is_some() { let _ = self.stop(); }
StartStopExisting(t) ==
    /\ pc = "server"
    /\ threads[t].pc = "start"
    /\ IF process.some
       THEN \E kill_result \in KillResults :
                /\ process' = stop(process, kill_result).process
                /\ killed' = with_killed(killed, stop(process, kill_result).child)
       ELSE UNCHANGED <<process, killed>>
    /\ threads' = [threads EXCEPT ![t].pc = "bind"]
    /\ UNCHANGED <<lock, alive, spawned, listening>>
    /\ UNCHANGED <<costing_vars, fold_vars, discount_vars, pc>>

\* start(): the first TcpListener::bind, which fails while a process listens
\* on the port
StartBind(t) ==
    /\ pc = "server"
    /\ threads[t].pc = "bind"
    /\ threads' = [threads EXCEPT ![t].pc = IF listening = {} THEN "spawn" ELSE "lsof"]
    /\ UNCHANGED <<process, lock, alive, spawned, killed, listening>>
    /\ UNCHANGED <<costing_vars, fold_vars, discount_vars, pc>>

\* start(): lsof -ti :port. It cannot be run, or prints the pids of the
\* processes with a socket on the port, those connected to it included; with
\* nothing printed neither kill nor the sleep of 500 ms follows
StartLsof(t) ==
    /\ pc = "server"
    /\ threads[t].pc = "lsof"
    /\ \E output \in {None} \cup {Some(listening \cup connected) : connected \in SUBSET Clients} :
          threads' =
              IF output.some /\ output.v # {}
              THEN [threads EXCEPT ![t].pc = "kill", ![t].pids = output.v]
              ELSE [threads EXCEPT ![t].pc = "rebind"]
    /\ UNCHANGED <<process, lock, alive, spawned, killed, listening>>
    /\ UNCHANGED <<costing_vars, fold_vars, discount_vars, pc>>

\* start(): kill -9 with the whole output of lsof as its one argument, the
\* result ignored: a process dies only when the output names one pid alone.
\* Child::kill is not called, the sleep of 500 ms follows.
StartKill(t) ==
    /\ pc = "server"
    /\ threads[t].pc = "kill"
    /\ \E kill_ok \in BOOLEAN :
          IF kill_ok /\ Cardinality(threads[t].pids) = 1
          THEN /\ alive' = alive \ threads[t].pids
               /\ listening' = listening \ threads[t].pids
          ELSE UNCHANGED <<alive, listening>>
    /\ threads' = [threads EXCEPT ![t].pc = "rebind", ![t].pids = {}]
    /\ UNCHANGED <<process, lock, spawned, killed>>
    /\ UNCHANGED <<costing_vars, fold_vars, discount_vars, pc>>

\* start(): the second bind, the failure of which start returns
StartRebind(t) ==
    /\ pc = "server"
    /\ threads[t].pc = "rebind"
    /\ threads' =
          IF listening = {} THEN [threads EXCEPT ![t].pc = "spawn"]
          ELSE [threads EXCEPT ![t].pc = "return", ![t].result = Err(PortInUse(Port))]
    /\ UNCHANGED <<process, lock, alive, spawned, killed, listening>>
    /\ UNCHANGED <<costing_vars, fold_vars, discount_vars, pc>>

\* start(): after the sleep of 100 ms, cmd.spawn() with `?`,
\* self.process = Some(child), Ok(())
StartSpawn(t) ==
    /\ pc = "server"
    /\ threads[t].pc = "spawn"
    /\ \/ /\ process' = Some(spawned + 1)
          /\ spawned' = spawned + 1
          /\ alive' = alive \cup {spawned + 1}
          /\ threads' = [threads EXCEPT ![t].pc = "return", ![t].result = Ok(Unit)]
       \/ /\ \E e \in SpawnErrors :
                threads' = [threads EXCEPT
                               ![t].pc = "return",
                               ![t].result = Err("Failed to start server: " \o e)]
          /\ UNCHANGED <<process, spawned, alive>>
    /\ UNCHANGED <<lock, killed, listening>>
    /\ UNCHANGED <<costing_vars, fold_vars, discount_vars, pc>>

\* stop() called by stop_local_server
Stop(t) ==
    /\ pc = "server"
    /\ threads[t].pc = "stop"
    /\ \E kill_result \in KillResults :
          /\ process' = stop(process, kill_result).process
          /\ killed' = with_killed(killed, stop(process, kill_result).child)
          /\ threads' = [threads EXCEPT ![t].pc = "return",
                                        ![t].child = stop(process, kill_result).child,
                                        ![t].result = stop(process, kill_result).result]
    /\ UNCHANGED <<lock, alive, spawned, listening>>
    /\ UNCHANGED <<costing_vars, fold_vars, discount_vars, pc>>

\* The MutexGuard is dropped: at the end of the block of start_local_server
\* (also when `?` returns), of stop_local_server, of the auto-start. The call
\* is over and its locals are gone
Unlock(t) ==
    /\ pc = "server"
    /\ threads[t].pc = "return"
    /\ lock' = None
    /\ threads' = [threads EXCEPT ![t] = [Idle EXCEPT !.pc = "done"]]
    /\ UNCHANGED <<process, alive, spawned, killed, listening>>
    /\ UNCHANGED <<costing_vars, fold_vars, discount_vars, pc>>

\* impl Drop for LocalServer: let _ = self.stop(), when the app closes and
\* the managed state goes. The auto-start thread, which holds a handle of the
\* app, has ended, and no command is under way.
Drop ==
    /\ pc = "server"
    /\ \A t \in Threads : threads[t].pc \in {"idle", "done"}
    /\ threads[AutoStartThread].pc = "done"
    /\ \E kill_result \in KillResults :
          /\ process' = stop(process, kill_result).process
          /\ killed' = with_killed(killed, stop(process, kill_result).child)
    /\ pc' = "dropped"
    /\ UNCHANGED <<lock, threads, alive, spawned, listening>>
    /\ UNCHANGED <<costing_vars, fold_vars, discount_vars>>

\* A child exits: of itself (Bun fails to bind, or crashes), its handle
\* staying where it is, or of a kill, some time after kill() returned, be it
\* after the drop of the LocalServer
ChildExit ==
    /\ pc \in {"server", "dropped"}
    /\ \E child \in alive :
          /\ alive' = alive \ {child}
          /\ listening' = listening \ {child}
    /\ UNCHANGED <<process, lock, threads, spawned, killed>>
    /\ UNCHANGED <<costing_vars, fold_vars, discount_vars, pc>>

\* A child that runs binds the port, or a process that is no child does (a
\* descendant a killed child left behind among them): nobody listens yet
Listen ==
    /\ pc = "server"
    /\ listening = {}
    /\ \E p \in alive \cup Foreign : listening' = {p}
    /\ UNCHANGED <<process, lock, threads, alive, spawned, killed>>
    /\ UNCHANGED <<costing_vars, fold_vars, discount_vars, pc>>

\* A process that is no child gives the port up
ForeignExit ==
    /\ pc = "server"
    /\ listening \cap Foreign # {}
    /\ listening' = listening \ Foreign
    /\ UNCHANGED <<process, lock, threads, alive, spawned, killed>>
    /\ UNCHANGED <<costing_vars, fold_vars, discount_vars, pc>>

Next ==
    \/ AutoStart
    \/ \E t \in CommandThreads : StartLocalServer(t)
    \/ \E t \in CommandThreads : StopLocalServer(t)
    \/ \E t \in Threads : Lock(t)
    \/ \E t \in Threads : StartStopExisting(t)
    \/ \E t \in Threads : StartBind(t)
    \/ \E t \in Threads : StartLsof(t)
    \/ \E t \in Threads : StartKill(t)
    \/ \E t \in Threads : StartRebind(t)
    \/ \E t \in Threads : StartSpawn(t)
    \/ \E t \in CommandThreads : Stop(t)
    \/ \E t \in Threads : Unlock(t)
    \/ Drop
    \/ ChildExit
    \/ Listen
    \/ ForeignExit
    \/ create_cost_estimate
    \/ FindAndLink
    \/ GetCosts
    \/ CalculateVariableOpexCost
    \/ ReduceErrors
    \/ AddPeriodCosts
    \/ FoldPeriodCosts
    \/ DiscountFactor

Spec == Init /\ [][Next]_vars

-----------------------------------------------------------------------------
(* What the claims speak of, read off a state of an estimate_cost call *)

Responded == pc = "responded"

InternalOptions == convert_to_internal(target_currency, cost_library)

\* The options estimate_asset_cost is (or, had the conversion failed, would
\* be) called with; whether it succeeds does not depend on the rate.
OptionsUsed ==
    IF InternalOptions.tag = "Ok" THEN InternalOptions.val ELSE default_options

\* estimate_asset_cost on the j-th asset of the request
AssetResult(j) ==
    estimate_asset_cost(cost_library, assets[j], OptionsUsed, hash_order[j])

AssetIndices == 1..Len(assets)
FailingAssets == {j \in AssetIndices : AssetResult(j).tag = "Err"}

\* find_and_link on the i-th cost item of the j-th asset
LinkResult(j, i) ==
    find_and_link(assets[j].cost_items[i], cost_reference_items(cost_library),
                  cost_library, hash_order[j][i])

ItemIndices(j) == 1..Len(assets[j].cost_items)
FailingLinks(j) == {i \in ItemIndices(j) : LinkResult(j, i).tag = "Err"}

\* The elements of the set S of indices, ascending
RECURSIVE Ascending(_)
Ascending(S) ==
    IF S = {} THEN <<>>
    ELSE LET m == CHOOSE x \in S : \A y \in S : x <= y
         IN  <<m>> \o Ascending(S \ {m})

\* acc.combine(err) over the errors es, left to right, from the first
RECURSIVE CombineLeft(_)
CombineLeft(es) ==
    IF Len(es) = 1 THEN es[1]
    ELSE combine(CombineLeft(SubSeq(es, 1, Len(es) - 1)), es[Len(es)])

AssetErrorsInOrder ==
    LET js == Ascending(FailingAssets) IN [k \in 1..Len(js) |-> AssetResult(js[k]).err]

LinkErrorsInOrder(j) ==
    LET is == Ascending(FailingLinks(j)) IN [k \in 1..Len(is) |-> LinkResult(j, is[k]).err]

-----------------------------------------------------------------------------
(* C1 *)

\* The response holds one estimate per requested asset, in request order
OneEstimatePerAsset ==
    /\ response.status = "Ok"
    /\ Len(response.body.assets) = Len(assets)
    /\ \A j \in AssetIndices :
          /\ response.body.assets[j].id = assets[j].id
          /\ response.body.assets[j] = AssetResult(j).val

\* C1: on a request whose target currency resolves, estimate_cost returns Ok
\* with exactly one AssetCostEstimate per requested asset, in request order,
\* if and only if estimate_asset_cost succeeds for every asset; if at least
\* one asset fails it returns the single DataError that combines the per-asset
\* errors left to right in request order, and no estimate of any asset.
C1_AllOrNothing ==
    (Responded /\ InternalOptions.tag = "Ok") =>
        /\ response.status = "Ok" <=> \A j \in AssetIndices : AssetResult(j).tag = "Ok"
        /\ response.status = "Ok" => OneEstimatePerAsset
        /\ FailingAssets # {} => response = DataError(CombineLeft(AssetErrorsInOrder))

\* Where C1 does hold: the same, on the requests none of whose assets panics.
C1_AllOrNothing_NoPanic ==
    (/\ Responded
     /\ InternalOptions.tag = "Ok"
     /\ \A j \in AssetIndices : AssetResult(j).tag # "Panic") =>
        /\ response.status = "Ok" <=> \A j \in AssetIndices : AssetResult(j).tag = "Ok"
        /\ response.status = "Ok" => OneEstimatePerAsset
        /\ FailingAssets # {} => response = DataError(CombineLeft(AssetErrorsInOrder))

-----------------------------------------------------------------------------
(* C2 *)

\* Whether the i-th cost item of asset j links and its costs then fail
CostsFail(j, i) ==
    /\ LinkResult(j, i).tag = "Ok"
    /\ get_costs(LinkResult(j, i).val, OptionsUsed).tag # "Ok"

\* C2: if linking fails for at least one cost item of an asset,
\* estimate_asset_cost returns the Err that combines the linking errors of all
\* failing items of the asset; no cost is calculated, so the error is a
\* linking error (never UnknownCurrencyConversion, UnknownInflationFactor or a
\* panic of a linked sibling), and no estimate is produced.
C2_LinkErrorsFirst ==
    Responded =>
        /\ \A j \in AssetIndices :
              FailingLinks(j) # {} =>
                  /\ AssetResult(j) = Err(CombineLeft(LinkErrorsInOrder(j)))
                  /\ AssetResult(j).err.type \in {"MissingProperties", "UnknownCostItem"}
        /\ (/\ InternalOptions.tag = "Ok"
            /\ Len(assets) = 1
            /\ FailingLinks(1) # {}) =>
                response = DataError(CombineLeft(LinkErrorsInOrder(1)))

\* C2 witness: an asset with one item that fails to link and one linked item
\* whose costs would fail; the response is the linking error.
C2_Witness ==
    /\ Responded
    /\ InternalOptions.tag = "Ok"
    /\ Len(assets) = 1
    /\ Len(assets[1].cost_items) = 2
    /\ FailingLinks(1) = {1}
    /\ CostsFail(1, 2)
    /\ response.status = "DataError"
    /\ response.body.type = "MissingProperties"

-----------------------------------------------------------------------------
(* C3 *)

\* The parameter names the capital-cost formula of a reference item reads
FormulaNames(cost_reference_item) ==
    LET cost == cost_reference_item.capex_contribution.cost
    IN  IF cost.tag = "Linear"
        THEN {f.name : f \in Range(cost_reference_item.scaling_factors)}
        ELSE {part.dimension_name :
                part \in {q \in Range(cost.parameters) : q.tag = "Variable"}}

AllItemsLink ==
    \A j \in AssetIndices : FailingLinks(j) = {}

\* C3: on a request every cost item of which links, estimate_cost returns an
\* estimate or a CostEstimateError and never panics: every parameter name the
\* capital-cost formula of a referenced item reads is among the supplied
\* parameters.
C3_NeverPanics ==
    (Responded /\ AllItemsLink) =>
        /\ response.status \in {"Ok", "DataError"}
        /\ \A j \in AssetIndices : \A i \in ItemIndices(j) :
              FormulaNames(LinkResult(j, i).val.cost_reference_item)
                  \subseteq DOMAIN assets[j].cost_items[i].parameters

-----------------------------------------------------------------------------
(* What the claims speak of, read off a state of a find_and_link call *)

Linked == pc \in {"linked", "costed"}
Costed == pc = "costed"

RefResolves == cost_item.cost_item_ref \in LibraryItemIds(cost_library)
ResolvedItem == cost_reference_items(cost_library)[cost_item.cost_item_ref]

RequiredNames ==
    {f.name : f \in Range(ResolvedItem.scaling_factors)}
    \cup {c.name : c \in Range(ResolvedItem.variable_opex_contributions)}

SuppliedNames == DOMAIN cost_item.parameters

-----------------------------------------------------------------------------
(* C4 *)

\* C4: for a cost item whose reference id resolves, linking succeeds if and
\* only if every required name (scaling-factor names and variable-opex
\* contribution names of the resolved item) is supplied, extra names being
\* allowed; otherwise it fails with MissingProperties holding exactly one
\* {requesting item id, name} pair per required name that is not supplied.
C4_LinkIffRequiredSupplied ==
    (Linked /\ RefResolves) =>
        /\ linked.tag = "Ok" <=> RequiredNames \subseteq SuppliedNames
        /\ linked.tag = "Ok" =>
              /\ linked.val.id = cost_item.id
              /\ linked.val.parameters = cost_item.parameters
              /\ linked.val.quantity = cost_item.quantity
              /\ linked.val.cost_reference_item = ResolvedItem
        /\ ~(RequiredNames \subseteq SuppliedNames) =>
              /\ linked.tag = "Err"
              /\ linked.err.type = "MissingProperties"
              /\ Range(linked.err.properties) =
                    {MissingProperty(cost_item.id, name) :
                        name \in RequiredNames \ SuppliedNames}
              /\ Len(linked.err.properties) = Cardinality(RequiredNames \ SuppliedNames)

\* C4 witness: a complete parameter set less one required name (and with a
\* name the item does not require); the error names exactly the removed one.
C4_Witness ==
    /\ Linked
    /\ RefResolves
    /\ Cardinality(RequiredNames) = 2
    /\ RequiredNames \ SuppliedNames = {"depth"}
    /\ SuppliedNames \ RequiredNames # {}
    /\ linked = Err(MissingProperties(<<MissingProperty(cost_item.id, "depth")>>))

-----------------------------------------------------------------------------
(* C5 *)

\* C5: find_and_link on a cost item whose ref is the id of no reference item
\* fails with UnknownCostItem carrying the request-side item id (not the ref),
\* whatever parameters are supplied, and never with MissingProperties.
C5_UnknownCostItem ==
    (Linked /\ ~RefResolves) => linked = Err(UnknownCostItem(cost_item.id))

\* C5 witness: an unknown ref with some parameters supplied
C5_Witness ==
    /\ Linked
    /\ ~RefResolves
    /\ SuppliedNames = {"length"}
    /\ cost_item.id # cost_item.cost_item_ref
    /\ linked = Err(UnknownCostItem("c1"))

-----------------------------------------------------------------------------
(* What the claims speak of, read off a state of a reduce over errors *)

Reduced == pc = "reduced"
IsMissing(e) == e.type = "MissingProperties"
NonMissing == {k \in 1..Len(errors) : ~IsMissing(errors[k])}

\* The {id, property} pairs of the MissingProperties errors es, in order
PairsInOrder(es) == Flatten([k \in 1..Len(es) |-> es[k].properties])

\* The pairs of every linking failure of the request, asset by asset, item by
\* item
RequestPairsInOrder ==
    Flatten([j \in AssetIndices |-> PairsInOrder(LinkErrorsInOrder(j))])

\* Every failure of the request is a MissingProperties one (which only an
\* item that fails to link brings about)
MissingOrNone(result) ==
    /\ result.tag # "Panic"
    /\ result.tag = "Err" => IsMissing(result.err)

OnlyMissingFailures ==
    /\ \E j \in AssetIndices : FailingLinks(j) # {}
    /\ \A j \in AssetIndices : MissingOrNone(AssetResult(j))
    /\ FailingAssets # {}

-----------------------------------------------------------------------------
(* C6 *)

\* C6: combining MissingProperties errors yields one MissingProperties whose
\* list is the first operand's pairs followed by the second's, nothing dropped
\* and nothing de-duplicated; a request all of whose failures are
\* MissingProperties answers with every missing pair of every failing item of
\* every asset.
C6_MissingPropertiesConcatenate ==
    /\ (Reduced /\ NonMissing = {}) =>
            combined = Some(MissingProperties(PairsInOrder(errors)))
    /\ (Responded /\ InternalOptions.tag = "Ok" /\ OnlyMissingFailures) =>
            response = DataError(MissingProperties(RequestPairsInOrder))

\* C6 witness: two assets each failing with the same missing names of an item
\* of the same id; the response lists the four pairs, duplicates kept.
C6_Witness ==
    /\ Responded
    /\ Len(assets) = 2
    /\ \A j \in AssetIndices : Len(assets[j].cost_items) = 1
    /\ assets[1].cost_items = assets[2].cost_items
    /\ response.status = "DataError"
    /\ response.body.type = "MissingProperties"
    /\ Len(response.body.properties) = 4
    /\ Cardinality(Range(response.body.properties)) = 2

-----------------------------------------------------------------------------
(* C7 *)

\* The items of asset j whose ref is the id of no reference item
UnknownRefs(j) ==
    {i \in ItemIndices(j) :
        assets[j].cost_items[i].cost_item_ref \notin LibraryItemIds(cost_library)}

\* C7: MissingProperties combined with an error of another kind gives the
\* other error, whichever operand it is, the missing pairs being discarded; a
\* fold over errors of which at least one is not MissingProperties never
\* yields MissingProperties (so an asset with an unknown ref among items that
\* miss parameters reports UnknownCostItem).
C7_MissingPropertiesYield ==
    /\ (Reduced /\ Len(errors) = 2 /\ Cardinality(NonMissing) = 1) =>
            combined = Some(errors[CHOOSE k \in NonMissing : TRUE])
    /\ (Reduced /\ NonMissing # {}) =>
            /\ combined.some
            /\ ~IsMissing(combined.v)
            /\ combined.v \in {errors[k] : k \in NonMissing}
    /\ Responded =>
            \A j \in AssetIndices :
                (UnknownRefs(j) # {} /\ FailingLinks(j) # UnknownRefs(j)) =>
                    /\ AssetResult(j).tag = "Err"
                    /\ AssetResult(j).err.type = "UnknownCostItem"

\* C7 witness: two MissingProperties followed by an error of another kind
C7_Witness ==
    /\ Reduced
    /\ Len(errors) = 3
    /\ NonMissing = {3}
    /\ errors[1] # errors[2]
    /\ combined = Some(errors[3])

-----------------------------------------------------------------------------
(* C8 *)

\* C8: combining two errors of the same kind other than MissingProperties
\* returns the second operand; an asset whose items carry unknown refs reports
\* the id of the last of them in item order.
C8_LastOfSameKindWins ==
    /\ (Reduced /\ Len(errors) = 2 /\ errors[1].type = errors[2].type
            /\ ~IsMissing(errors[1])) =>
            combined = Some(errors[2])
    /\ Responded =>
            \A j \in AssetIndices :
                UnknownRefs(j) # {} =>
                    AssetResult(j) =
                        Err(UnknownCostItem(
                            assets[j].cost_items[
                                CHOOSE i \in UnknownRefs(j) :
                                    \A k \in UnknownRefs(j) : k <= i].id))
    /\ (Responded /\ InternalOptions.tag = "Ok" /\ Len(assets) = 1
            /\ UnknownRefs(1) # {}) =>
            response = DataError(UnknownCostItem(
                            assets[1].cost_items[
                                CHOOSE i \in UnknownRefs(1) :
                                    \A k \in UnknownRefs(1) : k <= i].id))

\* C8 witness: one asset with two items of unknown ref; the second is named
C8_Witness ==
    /\ Responded
    /\ Len(assets) = 1
    /\ UnknownRefs(1) = {1, 2}
    /\ assets[1].cost_items[1].id # assets[1].cost_items[2].id
    /\ response = DataError(UnknownCostItem(assets[1].cost_items[2].id))

-----------------------------------------------------------------------------
(* Comparison of two costs as numbers *)

\* |x|
RAbs(x) == IF IsNaN(x) THEN x ELSE [x EXCEPT !.s = 0]

\* The larger of |x| and |y|
Magnitude(x, y) == IF RLess(RAbs(x), RAbs(y)) THEN RAbs(y) ELSE RAbs(x)

\* The relative distance below which two costs that are computed by different
\* sequences of a few operations count as the same cost: 2^-50, four units in
\* the last place of a number in [1, 2)
Tolerance == Finite(0, -50, Pow2(24), 0)

\* x and y are the same number (0.0 and -0.0 are), or they are finite and
\* differ by no more than Tolerance times the larger
Near(x, y) ==
    \/ REq(x, y)
    \/ /\ x.c = "num" /\ y.c = "num"
       /\ ~RLess(RMul(Magnitude(x, y), Tolerance),
                 RAbs(RSub(x, y)))

\* Two optional costs are both absent, or both present and the same number
SameOption(a, b) == a.some = b.some /\ (a.some => REq(a.v, b.v))

NearOption(a, b) == a.some = b.some /\ (a.some => Near(a.v, b.v))

-----------------------------------------------------------------------------
(* C9 *)

ItemOptions == convert_to_internal(target_currency, cost_library).val

\* The capital cost of one unit of the linked item
UnitCapex ==
    calculate_capex_cost(cost_library, linked.val.cost_reference_item,
                         linked.val.parameters, ItemOptions)

\* The cost type of the linked item is absent or DirectEquipmentCost
IsDirectEquipment ==
    LET cost_type == linked.val.cost_reference_item.info.cost_type
    IN  ~cost_type.some \/ cost_type.v = "DirectEquipmentCost"

\* C9: in the costs of a successfully calculated item exactly one of
\* direct_equipment_cost and total_installed_cost is present, chosen by the
\* cost type of the reference item (direct equipment cost when it has none);
\* it is the capital cost times the quantity, and with quantity 0 it is
\* present with value 0.
C9_ExactlyOneCapitalCost ==
    (Costed /\ costs.tag = "Ok") =>
        /\ costs.val.direct_equipment_cost.some # costs.val.total_installed_cost.some
        /\ costs.val.direct_equipment_cost.some <=> IsDirectEquipment
        /\ IsDirectEquipment =>
              costs.val.direct_equipment_cost =
                  Some(RMul(UnitCapex.val.v, R(cost_item.quantity)))
        /\ ~IsDirectEquipment =>
              costs.val.total_installed_cost =
                  Some(RMul(UnitCapex.val.v, R(cost_item.quantity)))
        /\ cost_item.quantity = 0 =>
              \E c \in {costs.val.direct_equipment_cost,
                        costs.val.total_installed_cost} : c.some /\ IsZero(c.v)
        /\ (/\ cost_item.cost_item_ref = "Item 001"
            /\ cost_item.parameters = P(100, 30, 0)
            /\ cost_item.quantity = 3
            /\ target_currency = None) =>
              costs.val.direct_equipment_cost = Some(R(360))

\* C9 witness: an item of cost type TotalInstalledCost with quantity 0 and a
\* capital cost per unit that is not 0
C9_Witness ==
    /\ Costed
    /\ costs.tag = "Ok"
    /\ cost_item.quantity = 0
    /\ ~IsDirectEquipment
    /\ ~IsZero(UnitCapex.val.v)
    /\ costs.val.direct_equipment_cost = None
    /\ costs.val.total_installed_cost = Some(Zero(0))

-----------------------------------------------------------------------------
(* C10 *)

\* The requested target currency, or the base currency of the library
TargetCode ==
    IF target_currency.some THEN target_currency.v
    ELSE cost_library.currency_conversion.base_currency

KnownCurrencies == DOMAIN cost_library.currency_conversion.rates

AllItems == UNION {{<<j, i>> : i \in ItemIndices(j)} : j \in AssetIndices}

\* The currencies of the reference items of the request that the rate table
\* does not hold
AbsentSourceCurrencies ==
    {LinkResult(p[1], p[2]).val.cost_reference_item.capex_contribution.currency : p \in AllItems}
        \ KnownCurrencies

\* Every item of the request links, is given every name its formula reads, and
\* has a cost basis year the inflation table holds
NoOtherDefect ==
    /\ AllItemsLink
    /\ \A p \in AllItems :
          LET cost_reference_item == LinkResult(p[1], p[2]).val.cost_reference_item
          IN  /\ FormulaNames(cost_reference_item)
                    \subseteq DOMAIN assets[p[1]].cost_items[p[2]].parameters
              /\ to_string(cost_reference_item.capex_contribution.year)
                    \in DOMAIN cost_library.inflation.factors

\* C10: a target currency absent from the rate table fails the request with
\* UnknownCurrencyConversion carrying that code before any asset is examined,
\* whatever the assets (none included); a source currency absent from the
\* table, as the only defect, fails it with UnknownCurrencyConversion carrying
\* that code.
C10_UnknownCurrencyConversion ==
    Responded =>
        /\ TargetCode \notin KnownCurrencies =>
              response = DataError(UnknownCurrencyConversion(TargetCode))
        /\ (TargetCode \in KnownCurrencies /\ NoOtherDefect
                /\ AbsentSourceCurrencies # {}) =>
              /\ response.status = "DataError"
              /\ response.body.type = "UnknownCurrencyConversion"
              /\ response.body.currency \in AbsentSourceCurrencies

\* C10 witness: a request with a sound asset and an asset whose item is priced
\* in a currency the table does not hold, in a target currency it holds
C10_Witness ==
    /\ Responded
    /\ target_currency = Some("EUR")
    /\ Len(assets) = 2
    /\ \A j \in AssetIndices : assets[j].cost_items # <<>>
    /\ NoOtherDefect
    /\ AssetResult(1).tag = "Ok"
    /\ AbsentSourceCurrencies = {"KHR"}
    /\ response = DataError(UnknownCurrencyConversion("KHR"))

\* C10 witness of the other half: no asset at all, an absent target currency
C10_EmptyRequest ==
    /\ Responded
    /\ assets = <<>>
    /\ TargetCode \notin KnownCurrencies
    /\ response = DataError(UnknownCurrencyConversion("USD"))

-----------------------------------------------------------------------------
(* What the claims speak of, read off a state of a get_costs call *)

SourceCurrency == linked.val.cost_reference_item.capex_contribution.currency
SourceYear == to_string(linked.val.cost_reference_item.capex_contribution.year)

\* The value of the capital formula, before currency and inflation
FormulaValue ==
    capex_formula(linked.val.cost_reference_item, linked.val.parameters).v

\* The capital cost of the item: the one of the two that is present
CapitalCost ==
    IF IsDirectEquipment THEN costs.val.direct_equipment_cost.v
    ELSE costs.val.total_installed_cost.v

-----------------------------------------------------------------------------
(* C11 *)

\* Every item of the request links and is given every name its formula reads
LinksAndReads ==
    /\ AllItemsLink
    /\ \A p \in AllItems :
          FormulaNames(LinkResult(p[1], p[2]).val.cost_reference_item)
              \subseteq DOMAIN assets[p[1]].cost_items[p[2]].parameters

\* The years of the reference items of the request, as strings, that the
\* inflation table does not hold
AbsentYears ==
    {to_string(LinkResult(p[1], p[2]).val.cost_reference_item.capex_contribution.year) :
        p \in AllItems} \ DOMAIN cost_library.inflation.factors

\* C11: a request whose only defect is a capital-contribution year without an
\* entry in the inflation table is answered with DataError
\* UnknownInflationFactor carrying that year as a string; when the year has
\* an entry, the capital cost is multiplied by the factor stored under it.
C11_InflationFactor ==
    /\ (/\ Responded
        /\ TargetCode \in KnownCurrencies
        /\ LinksAndReads
        /\ AbsentSourceCurrencies = {}
        /\ AbsentYears # {}) =>
            /\ response.status = "DataError"
            /\ response.body.type = "UnknownInflationFactor"
            /\ response.body.year \in AbsentYears
    /\ (Costed /\ costs.tag = "Ok") =>
            /\ SourceYear \in DOMAIN cost_library.inflation.factors
            /\ CapitalCost =
                  RMul(RMul(RMul(FormulaValue,
                                 get_currency_factor(cost_library, SourceCurrency,
                                                     ItemOptions).val),
                            cost_library.inflation.factors[SourceYear]),
                       R(cost_item.quantity))

\* C11 witness: a sound asset and an asset whose item is priced at a year the
\* table does not hold
C11_Witness ==
    /\ Responded
    /\ Len(assets) = 2
    /\ \A j \in AssetIndices : assets[j].cost_items # <<>>
    /\ LinksAndReads
    /\ AssetResult(1).tag = "Ok"
    /\ AbsentSourceCurrencies = {}
    /\ AbsentYears = {"1066"}
    /\ response = DataError(UnknownInflationFactor("1066"))

\* C11 witness of the other half: a cost priced at a year whose factor is not 1
C11_InflatedCost ==
    /\ Costed
    /\ costs.tag = "Ok"
    /\ cost_library.inflation.factors[SourceYear] = R(2)
    /\ ~IsZero(FormulaValue)
    /\ cost_item.quantity = 1
    /\ target_currency = None
    /\ CapitalCost = RMul(RMul(FormulaValue, R(3)), R(2))

-----------------------------------------------------------------------------
(* C12 *)

\* rate(source) when no target currency is requested, else
\* rate(source) * (1 / rate(target))
ExpectedCurrencyFactor ==
    LET rates == cost_library.currency_conversion.rates
    IN  IF target_currency.some
        THEN RMul(rates[SourceCurrency], RDiv(R(1), rates[target_currency.v]))
        ELSE rates[SourceCurrency]

\* C12: with no target currency requested the target-currency rate is exactly
\* 1, the currency factor of every item is the library rate of its source
\* currency, and the request does not fail on account of the target currency;
\* with a target currency the factor is rate(source) * (1 / rate(target)).
C12_TargetCurrencyFactor ==
    /\ (Responded /\ ~target_currency.some) =>
            /\ InternalOptions = Ok([target_currency_rate |-> R(1)])
            /\ response #
                  DataError(UnknownCurrencyConversion(
                      cost_library.currency_conversion.base_currency))
    /\ (Linked /\ linked.tag = "Ok"
            /\ SourceCurrency \in DOMAIN cost_library.currency_conversion.rates) =>
            get_currency_factor(cost_library, SourceCurrency, ItemOptions) =
                Ok(ExpectedCurrencyFactor)
    /\ (Costed /\ costs.tag = "Ok") =>
            CapitalCost =
                RMul(RMul(RMul(FormulaValue, ExpectedCurrencyFactor),
                          get_inflation_factor(cost_library, SourceYear).val),
                     R(cost_item.quantity))

\* C12 witness: an item priced in the base currency, estimated in EUR
C12_Witness ==
    /\ Costed
    /\ target_currency = Some("EUR")
    /\ cost_item.cost_item_ref = "Item 001"
    /\ cost_item.parameters = P(100, 30, 0)
    /\ cost_item.quantity = 1
    /\ ExpectedCurrencyFactor = Frac(1, 3)
    /\ costs.tag = "Ok"
    /\ costs.val.direct_equipment_cost = Some(R(40))

-----------------------------------------------------------------------------
(* C13 *)

IsLinear == linked.val.cost_reference_item.capex_contribution.cost.tag = "Linear"

\* The product over the declared scaling factors of supplied / source_value
Ratio(factor, supplied) == RDiv(supplied[factor.name], factor.source_value)

\* multiplied from the first factor to the last
RECURSIVE RatioProduct(_, _)
RatioProduct(scaling_factors, supplied) ==
    IF scaling_factors = <<>> THEN R(1)
    ELSE IF Len(scaling_factors) = 1 THEN Ratio(scaling_factors[1], supplied)
    ELSE RMul(RatioProduct(SubSeq(scaling_factors, 1, Len(scaling_factors) - 1),
                           supplied),
              Ratio(scaling_factors[Len(scaling_factors)], supplied))

\* The linked item with one supplied parameter multiplied by k
ScaledBy(name, k) ==
    [linked.val EXCEPT !.parameters[name] = RMul(R(k), @)]

\* The capital cost get_costs gives an item: the one of the two that is present
CapitalCostOf(item) ==
    LET c == get_costs(item, ItemOptions).val
    IN  IF IsDirectEquipment THEN c.direct_equipment_cost.v
        ELSE c.total_installed_cost.v

ScalingNames ==
    {linked.val.cost_reference_item.scaling_factors[i].name :
        i \in DOMAIN linked.val.cost_reference_item.scaling_factors}

\* C13: the capital cost of a Linear item before currency and inflation is
\* base_cost times the product over the declared scaling factors of
\* supplied / source_value (base_cost alone when none is declared), and
\* multiplying one supplied scaling parameter by k multiplies the capital
\* cost by k, up to the rounding of the two computations.
C13_LinearCapitalCost ==
    /\ (Linked /\ linked.tag = "Ok" /\ IsLinear) =>
            capex_formula(linked.val.cost_reference_item, linked.val.parameters) =
                Some(RMul(linked.val.cost_reference_item.capex_contribution.cost.base_cost,
                          RatioProduct(linked.val.cost_reference_item.scaling_factors,
                                       linked.val.parameters)))
    /\ (Costed /\ costs.tag = "Ok" /\ IsLinear) =>
            /\ CapitalCost =
                  RMul(RMul(RMul(RMul(linked.val.cost_reference_item.capex_contribution.cost.base_cost,
                                      RatioProduct(linked.val.cost_reference_item.scaling_factors,
                                                   linked.val.parameters)),
                                 get_currency_factor(cost_library, SourceCurrency, ItemOptions).val),
                            get_inflation_factor(cost_library, SourceYear).val),
                       R(cost_item.quantity))
            /\ \A name \in ScalingNames : \A k \in {2, 3} :
                  Near(CapitalCostOf(ScaledBy(name, k)), RMul(R(k), CapitalCost))

\* A costed Linear item of two scaling factors whose cost is not zero
C13_Witness ==
    /\ Costed /\ costs.tag = "Ok" /\ IsLinear
    /\ Cardinality(ScalingNames) = 2
    /\ ~IsZero(CapitalCost)
    /\ CapitalCost # RMul(linked.val.cost_reference_item.capex_contribution.cost.base_cost,
                          R(cost_item.quantity))

\* A linked Linear item that declares no scaling factor
C13_NoScalingFactor ==
    /\ Linked /\ linked.tag = "Ok" /\ IsLinear
    /\ ScalingNames = {}
    /\ FormulaValue = linked.val.cost_reference_item.capex_contribution.cost.base_cost

-----------------------------------------------------------------------------
(* What the claims speak of, read off an Ok response *)

Succeeded == Responded /\ response.status = "Ok"

\* The assets of the response; those of the request in the same order
EstimatedAssets == IF Succeeded THEN 1..Len(response.body.assets) ELSE {}

AssetEstimate(j) == response.body.assets[j]

\* <<j, i>> for the i-th item estimate of the j-th asset estimate
EstimatedItems ==
    UNION {{<<j, i>> : i \in 1..Len(response.body.assets[j].cost_items)} :
           j \in EstimatedAssets}

ItemEstimate(p) == response.body.assets[p[1]].cost_items[p[2]]

TimelineOf(j) == assets[j].timeline

\* The years of a range as a set
YearSet(r) == {year \in r.first..r.last : TRUE}

\* The number of construction years of the j-th asset
ConstructionYears(j) == Cardinality(YearSet(construction_range(TimelineOf(j))))

\* The sum of the values present in a sequence of options, added from the
\* first to the last
RECURSIVE PresentSum(_)
PresentSum(options) ==
    IF options = <<>> THEN Zero(0)
    ELSE RAdd(PresentSum(SubSeq(options, 1, Len(options) - 1)),
              IF options[Len(options)].some THEN options[Len(options)].v ELSE Zero(0))

YearlyDirectEquipment(p) ==
    [y \in 1..Len(ItemEstimate(p).costs_by_year) |->
        ItemEstimate(p).costs_by_year[y].costs_in_year.direct_equipment_cost]

YearlyTotalInstalled(p) ==
    [y \in 1..Len(ItemEstimate(p).costs_by_year) |->
        ItemEstimate(p).costs_by_year[y].costs_in_year.total_installed_cost]

\* Spreading then summing gives back the capital costs of the item, up to
\* the rounding of the division and of the additions
RoundTrip(p) ==
    /\ NearOption(ItemEstimate(p).lifetime_costs.direct_equipment_cost,
                  ItemEstimate(p).costs.direct_equipment_cost)
    /\ NearOption(ItemEstimate(p).lifetime_costs.total_installed_cost,
                  ItemEstimate(p).costs.total_installed_cost)
    /\ ItemEstimate(p).costs.direct_equipment_cost.some =>
          Near(PresentSum(YearlyDirectEquipment(p)),
               ItemEstimate(p).costs.direct_equipment_cost.v)
    /\ ItemEstimate(p).costs.total_installed_cost.some =>
          Near(PresentSum(YearlyTotalInstalled(p)),
               ItemEstimate(p).costs.total_installed_cost.v)

-----------------------------------------------------------------------------
(* C14 *)

\* C14 as stated: for every cost item and every timeline whose construction
\* range has at least one year, the per-year capital costs of the item sum to
\* its capital cost before spreading, lifetime_costs equals costs for the
\* capital categories (both to floating-point tolerance), and an absent
\* category stays absent.
C14_AsStated ==
    \A p \in EstimatedItems :
        ConstructionYears(p[1]) >= 1 => RoundTrip(p)

\* C14: the same for every timeline whose construction range has at least
\* one year and ends no later than the series does (construction_finish <=
\* decommissioning_finish); in any timeline an absent category is absent in
\* the lifetime total.
C14_SpreadThenSum ==
    \A p \in EstimatedItems :
        /\ (/\ ConstructionYears(p[1]) >= 1
            /\ TimelineOf(p[1]).construction_finish <=
                  TimelineOf(p[1]).decommissioning_finish) => RoundTrip(p)
        /\ ~ItemEstimate(p).costs.direct_equipment_cost.some =>
              ~ItemEstimate(p).lifetime_costs.direct_equipment_cost.some
        /\ ~ItemEstimate(p).costs.total_installed_cost.some =>
              ~ItemEstimate(p).lifetime_costs.total_installed_cost.some

\* An item of each capital kind spread over three construction years
C14_Witness ==
    /\ Succeeded
    /\ \E p \in EstimatedItems :
          /\ ConstructionYears(p[1]) = 3
          /\ TimelineOf(p[1]).construction_finish <= TimelineOf(p[1]).decommissioning_finish
          /\ ItemEstimate(p).costs.direct_equipment_cost.some
          /\ ~IsZero(ItemEstimate(p).costs.direct_equipment_cost.v)
          /\ RoundTrip(p)
    /\ \E p \in EstimatedItems :
          /\ ConstructionYears(p[1]) = 3
          /\ ItemEstimate(p).costs.total_installed_cost.some
          /\ ~IsZero(ItemEstimate(p).costs.total_installed_cost.v)
          /\ ~ItemEstimate(p).costs.direct_equipment_cost.some
          /\ RoundTrip(p)

-----------------------------------------------------------------------------
(* C15 *)

\* x multiplied by itself n times over
RECURSIVE Power(_, _)
Power(x, n) == IF n <= 0 THEN R(1) ELSE RMul(Power(x, n - 1), x)

\* (1 + discount_rate) raised to (year - construction_start), for the j-th
\* asset, as f64::powi raises it
Divisor(j, year) ==
    powi(RAdd(R(1), assets[j].discount_rate), year - TimelineOf(j).construction_start)

\* What powi gives is the repeated product, up to rounding
IsPower(j, year) ==
    Near(Divisor(j, year),
         Power(RAdd(R(1), assets[j].discount_rate),
               year - TimelineOf(j).construction_start))

EachDivided(values, divisor) == [k \in DOMAIN values |-> RDiv(values[k], divisor)]

OptionDivided(value, divisor) ==
    IF value.some THEN Some(RDiv(value.v, divisor)) ELSE None

\* The discounted costs of an item in a year are its costs of that year
\* divided by the divisor
ItemYearDiscounted(entry, divisor) ==
    /\ entry.dcf_costs_in_year.direct_equipment_cost =
          OptionDivided(entry.costs_in_year.direct_equipment_cost, divisor)
    /\ entry.dcf_costs_in_year.total_installed_cost =
          OptionDivided(entry.costs_in_year.total_installed_cost, divisor)
    /\ entry.dcf_costs_in_year.variable_opex_cost =
          EachDivided(entry.costs_in_year.variable_opex_cost, divisor)

AssetYearDiscounted(entry, divisor) ==
    /\ entry.dcf_costs_in_year.direct_equipment_cost =
          RDiv(entry.costs_in_year.direct_equipment_cost, divisor)
    /\ entry.dcf_costs_in_year.lang_factored_capital_cost =
          EachDivided(entry.costs_in_year.lang_factored_capital_cost, divisor)
    /\ entry.dcf_costs_in_year.total_installed_cost =
          RDiv(entry.costs_in_year.total_installed_cost, divisor)
    /\ entry.dcf_costs_in_year.fixed_opex_cost =
          EachDivided(entry.costs_in_year.fixed_opex_cost, divisor)
    /\ entry.dcf_costs_in_year.variable_opex_cost =
          EachDivided(entry.costs_in_year.variable_opex_cost, divisor)
    /\ entry.dcf_costs_in_year.decommissioning_cost =
          RDiv(entry.costs_in_year.decommissioning_cost, divisor)

\* The entries of the per-year series of the j-th asset
AssetYears(j) == 1..Len(AssetEstimate(j).costs_by_year)
AssetYear(j, y) == AssetEstimate(j).costs_by_year[y]
ItemYears(p) == 1..Len(ItemEstimate(p).costs_by_year)
ItemYear(p, y) == ItemEstimate(p).costs_by_year[y]

\* C15, for the timelines of the requests, none of which spans more than
\* I16Max years: every per-year discounted value, of an item and of an asset,
\* is the undiscounted value of the year divided by (1 + discount_rate) raised
\* to (year - construction_start); in the construction-start year the
\* discounted costs equal the undiscounted ones, and for a discount rate above
\* zero a cost that recurs in a later year is discounted to strictly less.
C15_Discounting ==
    /\ \A p \in EstimatedItems : \A y \in ItemYears(p) :
          /\ ItemYearDiscounted(ItemYear(p, y), Divisor(p[1], ItemYear(p, y).year))
          /\ ItemYear(p, y).year = TimelineOf(p[1]).construction_start =>
                ItemYear(p, y).dcf_costs_in_year = ItemYear(p, y).costs_in_year
    /\ \A j \in EstimatedAssets : \A y \in AssetYears(j) :
          /\ IsPower(j, AssetYear(j, y).year)
          /\ AssetYearDiscounted(AssetYear(j, y), Divisor(j, AssetYear(j, y).year))
          /\ AssetYear(j, y).year = TimelineOf(j).construction_start =>
                AssetYear(j, y).dcf_costs_in_year = AssetYear(j, y).costs_in_year
          /\ \A z \in AssetYears(j) :
                (/\ RLess(Zero(0), assets[j].discount_rate)
                 /\ AssetYear(j, y).year < AssetYear(j, z).year) =>
                    /\ RLess(RDiv(R(1), Divisor(j, AssetYear(j, z).year)),
                             RDiv(R(1), Divisor(j, AssetYear(j, y).year)))
                    /\ (/\ RLess(Zero(0), AssetYear(j, y).costs_in_year.fixed_opex_cost.maintenance)
                        /\ AssetYear(j, y).costs_in_year.fixed_opex_cost.maintenance =
                              AssetYear(j, z).costs_in_year.fixed_opex_cost.maintenance) =>
                            RLess(AssetYear(j, z).dcf_costs_in_year.fixed_opex_cost.maintenance,
                                  AssetYear(j, y).dcf_costs_in_year.fixed_opex_cost.maintenance)

\* A discount rate above zero and a maintenance cost in three years running,
\* the first of them the year construction starts
C15_Witness ==
    /\ Succeeded
    /\ \E j \in EstimatedAssets :
          /\ RLess(Zero(0), assets[j].discount_rate)
          /\ Len(AssetEstimate(j).costs_by_year) = 3
          /\ \A y \in AssetYears(j) :
                RLess(Zero(0), AssetYear(j, y).costs_in_year.fixed_opex_cost.maintenance)
          /\ RLess(AssetYear(j, 3).dcf_costs_in_year.fixed_opex_cost.maintenance,
                   AssetYear(j, 2).dcf_costs_in_year.fixed_opex_cost.maintenance)
          /\ \E i \in 1..Len(AssetEstimate(j).cost_items) :
                /\ ItemYear(<<j, i>>, 3).costs_in_year.direct_equipment_cost.some
                /\ ItemYear(<<j, i>>, 3).dcf_costs_in_year.direct_equipment_cost #
                      ItemYear(<<j, i>>, 3).costs_in_year.direct_equipment_cost

Discounted == pc = "discounted"

\* C15 as stated, for every year of every timeline: the above, and the
\* divisor of a year of a series that starts at start_year is
\* (1 + discount_rate) raised to (year - start_year).
C15_AsStated ==
    /\ C15_Discounting
    /\ Discounted =>
          discounted_by =
              Ok(powi(RAdd(R(1), discounting.discount_rate),
                      discounting.year - discounting.start_year))

\* A year more than I16Max years after the start, discounted without
\* overflow checks by a power of a negative exponent
C15_Overflow ==
    /\ Discounted
    /\ ~overflow_checks
    /\ discounting.year - discounting.start_year > I16Max
    /\ discounted_by.tag = "Ok"
    /\ RLess(discounted_by.val, R(1))
    /\ RLess(R(1), RAdd(R(1), discounting.discount_rate))

-----------------------------------------------------------------------------
(* C16 *)

\* The request of test_can_create_estimate
ScenarioRequest ==
    <<AssetParameters("a1", Timeline(2025, 2025, 2026, 2026, 2027, 2027),
                      CapexLangFactorsDefault, FixedOpexFactorsDefault,
                      <<CostItemParameters("c1", "Item 001", 1,
                                           [name \in {"length", "depth"} |->
                                               IF name = "length" THEN R(100) ELSE R(30)])>>,
                      Frac(1, 10))>>

\* The test estimates against the library of create_cost_library
IsScenario ==
    /\ cost_library = Library
    /\ assets = ScenarioRequest
    /\ ~target_currency.some

\* C16: the request of one asset with timeline 2025-2025 / 2026-2026 /
\* 2027-2027, default factors, discount rate 0.1 and one item of quantity 1 on
\* Item 001 with length 100 and depth 30 is answered Ok with direct equipment
\* cost 120, total installed cost 450, maintenance 36 per year,
\* decommissioning cost 45, the three yearly entries 2025, 2026, 2027, and
\* the item's direct equipment cost present (120) with its total installed
\* cost absent.
C16_Scenario ==
    (Responded /\ IsScenario) =>
        /\ response.status = "Ok"
        /\ Len(response.body.assets) = 1
        /\ AssetEstimate(1).costs.direct_equipment_cost = R(120)
        /\ AssetEstimate(1).costs.total_installed_cost = R(450)
        /\ AssetEstimate(1).costs.fixed_opex_cost_per_year.maintenance = R(36)
        /\ AssetEstimate(1).costs.decommissioning_cost = R(45)
        /\ [y \in AssetYears(1) |-> AssetYear(1, y).year] = <<2025, 2026, 2027>>
        /\ Len(AssetEstimate(1).cost_items) = 1
        /\ ItemEstimate(<<1, 1>>).costs.direct_equipment_cost = Some(R(120))
        /\ ItemEstimate(<<1, 1>>).costs.total_installed_cost = None
        /\ [y \in ItemYears(<<1, 1>>) |-> ItemYear(<<1, 1>>, y).year] = <<2025, 2026, 2027>>

\* The scenario answered, with the discounted yearly values the test expects:
\* maintenance 32.72727272727273 in 2026 and decommissioning
\* 37.19008264462809 in 2027
C16_Witness ==
    /\ Responded /\ IsScenario
    /\ response.status = "Ok"
    /\ AssetEstimate(1).costs.total_installed_cost = R(450)
    /\ AssetYear(1, 2).dcf_costs_in_year.fixed_opex_cost.maintenance =
          Finite(0, 5, 17158516, 97612893)
    /\ AssetYear(1, 3).dcf_costs_in_year.decommissioning_cost =
          Finite(0, 5, 19498314, 13310848)

-----------------------------------------------------------------------------
(* C17 *)

\* The sum of the named fields of a record of numbers, added in the order
\* of the names
RECURSIVE FieldSum(_, _)
FieldSum(values, names) ==
    IF Len(names) = 1 THEN values[names[1]]
    ELSE RAdd(FieldSum(values, SubSeq(names, 1, Len(names) - 1)),
              values[names[Len(names)]])

ItemsOf(j) == 1..Len(AssetEstimate(j).cost_items)

\* D: the sum of direct_equipment_cost over the items that have one
ItemsDirectEquipment(j) ==
    PresentSum([i \in ItemsOf(j) |->
                    AssetEstimate(j).cost_items[i].costs.direct_equipment_cost])

ItemsTotalInstalled(j) ==
    PresentSum([i \in ItemsOf(j) |->
                    AssetEstimate(j).cost_items[i].costs.total_installed_cost])

LangCategoriesInOrder ==
    <<"equipment_erection", "piping", "instrumentation", "electrical",
      "buildings_and_process", "utilities", "storages", "site_development",
      "ancillary_buildings", "design_and_engineering", "contractors_fee", "contingency">>

LangCategories == Range(LangCategoriesInOrder)

\* D + the 12 Lang-factored categories - the Lang-factored contingency
InstalledFromEquipment(j) ==
    RSub(RAdd(ItemsDirectEquipment(j),
              FieldSum(AssetEstimate(j).costs.lang_factored_capital_cost,
                       LangCategoriesInOrder)),
         AssetEstimate(j).costs.lang_factored_capital_cost.contingency)

\* C17: the asset's total installed cost is D plus the sum of the 12
\* Lang-factored categories minus the Lang-factored contingency plus the sum
\* of total_installed_cost over the items that have one, where D is the sum
\* of direct_equipment_cost over the items that have one and each
\* Lang-factored category is D times its Lang factor; the sums are taken in
\* the order of the items and of the categories, and equality is that of
\* numbers (of two zeros whatever their sign).
C17_TotalInstalledCost ==
    \A j \in EstimatedAssets :
        /\ REq(AssetEstimate(j).costs.direct_equipment_cost, ItemsDirectEquipment(j))
        /\ DOMAIN AssetEstimate(j).costs.lang_factored_capital_cost = LangCategories
        /\ \A f \in LangCategories :
              REq(AssetEstimate(j).costs.lang_factored_capital_cost[f],
                  RMul(ItemsDirectEquipment(j), assets[j].capex_lang_factors[f]))
        /\ REq(AssetEstimate(j).costs.total_installed_cost,
               RAdd(InstalledFromEquipment(j), ItemsTotalInstalled(j)))

\* An asset with items of both kinds and a contingency that is not zero
C17_Witness ==
    /\ Succeeded
    /\ \E j \in EstimatedAssets :
          /\ \E i \in ItemsOf(j) :
                ~AssetEstimate(j).cost_items[i].costs.direct_equipment_cost.some
          /\ \E i \in ItemsOf(j) :
                ~AssetEstimate(j).cost_items[i].costs.total_installed_cost.some
          /\ RLess(Zero(0), ItemsDirectEquipment(j))
          /\ RLess(Zero(0), ItemsTotalInstalled(j))
          /\ RLess(Zero(0), AssetEstimate(j).costs.lang_factored_capital_cost.contingency)
          /\ REq(AssetEstimate(j).costs.total_installed_cost,
                 RAdd(InstalledFromEquipment(j), ItemsTotalInstalled(j)))

-----------------------------------------------------------------------------
(* C18 *)

InConstruction(j, year) ==
    TimelineOf(j).construction_start <= year /\ year <= TimelineOf(j).construction_finish
InOperation(j, year) ==
    TimelineOf(j).operation_start <= year /\ year <= TimelineOf(j).operation_finish
InDecommissioning(j, year) ==
    TimelineOf(j).decommissioning_start <= year /\ year <= TimelineOf(j).decommissioning_finish

\* The years construction_start through decommissioning_finish, ascending
SeriesYears(j) ==
    [y \in 1..(IF TimelineOf(j).decommissioning_finish >= TimelineOf(j).construction_start
               THEN TimelineOf(j).decommissioning_finish
                        - TimelineOf(j).construction_start + 1
               ELSE 0) |-> TimelineOf(j).construction_start + y - 1]

FixedOpexCategories ==
    {"maintenance", "control_room_facilities", "insurance_liability",
     "insurance_equipment_loss", "cost_of_capital", "major_turnarounds"}

AllZero(values) == \A k \in DOMAIN values : IsZero(values[k])

\* The capital categories of an entry: the asset's values divided by the
\* number of construction years in a construction year, zero in another
CapitalGated(j, entry) ==
    IF InConstruction(j, entry.year)
    THEN /\ entry.costs_in_year.direct_equipment_cost =
               RDiv(AssetEstimate(j).costs.direct_equipment_cost, R(ConstructionYears(j)))
         /\ entry.costs_in_year.lang_factored_capital_cost =
               EachDivided(AssetEstimate(j).costs.lang_factored_capital_cost,
                           R(ConstructionYears(j)))
         /\ entry.costs_in_year.total_installed_cost =
               RDiv(AssetEstimate(j).costs.total_installed_cost, R(ConstructionYears(j)))
    ELSE /\ IsZero(entry.costs_in_year.direct_equipment_cost)
         /\ AllZero(entry.costs_in_year.lang_factored_capital_cost)
         /\ IsZero(entry.costs_in_year.total_installed_cost)

\* The running costs of an entry: the asset's total installed cost times
\* each of the 6 factors and the variable opex, undivided, in an operation
\* year; zero in another
OpexGated(j, entry) ==
    /\ DOMAIN entry.costs_in_year.fixed_opex_cost = FixedOpexCategories
    /\ IF InOperation(j, entry.year)
       THEN /\ \A f \in FixedOpexCategories :
                  entry.costs_in_year.fixed_opex_cost[f] =
                      RMul(AssetEstimate(j).costs.total_installed_cost,
                           assets[j].opex_factors[f])
            /\ entry.costs_in_year.variable_opex_cost =
                  AssetEstimate(j).costs.variable_opex_cost_per_year
       ELSE /\ AllZero(entry.costs_in_year.fixed_opex_cost)
            /\ AllZero(entry.costs_in_year.variable_opex_cost)

\* C18: the asset's per-year series has exactly one entry per year from
\* construction_start through decommissioning_finish, in ascending order; in
\* each entry the direct equipment cost, the Lang-factored costs and the total
\* installed cost are the asset's values divided by the number of
\* construction years in a construction year and zero in any other, fixed
\* opex (total installed cost times each of the 6 factors) and variable opex
\* are undivided in an operation year and zero in any other, and the
\* decommissioning cost is zero outside the decommissioning years.
C18_AssetSeries ==
    \A j \in EstimatedAssets :
        /\ [y \in AssetYears(j) |-> AssetYear(j, y).year] = SeriesYears(j)
        /\ \A y \in AssetYears(j) :
              /\ CapitalGated(j, AssetYear(j, y))
              /\ OpexGated(j, AssetYear(j, y))
              /\ ~InDecommissioning(j, AssetYear(j, y).year) =>
                    IsZero(AssetYear(j, y).costs_in_year.decommissioning_cost)

\* A series of three years with two construction years, an operation year
\* that carries fixed and variable opex, and a year after operation
C18_Witness ==
    /\ Succeeded
    /\ \E j \in EstimatedAssets :
          /\ Len(AssetEstimate(j).costs_by_year) = 3
          /\ ConstructionYears(j) = 2
          /\ RLess(Zero(0), AssetYear(j, 2).costs_in_year.total_installed_cost)
          /\ IsZero(AssetYear(j, 3).costs_in_year.total_installed_cost)
          /\ InOperation(j, AssetYear(j, 2).year)
          /\ RLess(Zero(0), AssetYear(j, 2).costs_in_year.fixed_opex_cost.major_turnarounds)
          /\ RLess(Zero(0), AssetYear(j, 2).costs_in_year.variable_opex_cost.electrical_power)
          /\ ~InOperation(j, AssetYear(j, 3).year)
          /\ AllZero(AssetYear(j, 3).costs_in_year.fixed_opex_cost)
          /\ RLess(Zero(0), AssetYear(j, 3).costs_in_year.decommissioning_cost)

-----------------------------------------------------------------------------
(* C19 *)

DecommissioningYears(j) ==
    Cardinality(YearSet(decommissioning_range(TimelineOf(j))))

RECURSIVE SeqSum(_)
SeqSum(values) ==
    IF values = <<>> THEN Zero(0)
    ELSE RAdd(SeqSum(SubSeq(values, 1, Len(values) - 1)), values[Len(values)])

YearlyDecommissioning(j) ==
    [y \in AssetYears(j) |-> AssetYear(j, y).costs_in_year.decommissioning_cost]

\* C19: the asset's decommissioning cost is 0.1 times (D + the Lang-factored
\* total - the Lang-factored contingency), the items' own total installed
\* cost left out; each decommissioning year carries an equal share of it, and
\* for a decommissioning range that is not empty and starts no earlier than
\* construction the yearly decommissioning costs sum to it, up to the
\* rounding of the division and of the additions.
C19_DecommissioningCost ==
    \A j \in EstimatedAssets :
        /\ REq(AssetEstimate(j).costs.decommissioning_cost,
               RMul(Frac(1, 10), InstalledFromEquipment(j)))
        /\ \A y \in AssetYears(j) :
              InDecommissioning(j, AssetYear(j, y).year) =>
                  AssetYear(j, y).costs_in_year.decommissioning_cost =
                      RDiv(AssetEstimate(j).costs.decommissioning_cost,
                           R(DecommissioningYears(j)))
        /\ (/\ DecommissioningYears(j) >= 1
            /\ TimelineOf(j).construction_start <= TimelineOf(j).decommissioning_start) =>
                /\ Near(SeqSum(YearlyDecommissioning(j)),
                        AssetEstimate(j).costs.decommissioning_cost)
                /\ Near(AssetEstimate(j).lifetime_costs.decommissioning_cost,
                        AssetEstimate(j).costs.decommissioning_cost)

\* Three decommissioning years of an asset one of whose items has a total
\* installed cost of its own
C19_Witness ==
    /\ Succeeded
    /\ \E j \in EstimatedAssets :
          /\ DecommissioningYears(j) = 3
          /\ TimelineOf(j).construction_start <= TimelineOf(j).decommissioning_start
          /\ RLess(Zero(0), ItemsTotalInstalled(j))
          /\ RLess(Zero(0), AssetEstimate(j).costs.decommissioning_cost)
          /\ Near(SeqSum(YearlyDecommissioning(j)),
                  AssetEstimate(j).costs.decommissioning_cost)
          /\ ~Near(AssetEstimate(j).costs.decommissioning_cost,
                   RMul(Frac(1, 10), AssetEstimate(j).costs.total_installed_cost))

-----------------------------------------------------------------------------
(* C20 *)

\* C20: a cost item's per-year series has one entry per year from
\* construction_start through decommissioning_finish; in it the direct
\* equipment cost and the total installed cost are absent in every year
\* outside the construction range and are the item's value divided by the
\* number of construction years inside it, and the variable opex is the
\* item's per-year variable opex, undivided, in every operation year and
\* zero in every other year.
C20_ItemSeries ==
    \A p \in EstimatedItems :
        /\ [y \in ItemYears(p) |-> ItemYear(p, y).year] = SeriesYears(p[1])
        /\ \A y \in ItemYears(p) :
              /\ IF InConstruction(p[1], ItemYear(p, y).year)
                 THEN /\ ItemYear(p, y).costs_in_year.direct_equipment_cost =
                            OptionDivided(ItemEstimate(p).costs.direct_equipment_cost,
                                          R(ConstructionYears(p[1])))
                      /\ ItemYear(p, y).costs_in_year.total_installed_cost =
                            OptionDivided(ItemEstimate(p).costs.total_installed_cost,
                                          R(ConstructionYears(p[1])))
                 ELSE /\ ItemYear(p, y).costs_in_year.direct_equipment_cost = None
                      /\ ItemYear(p, y).costs_in_year.total_installed_cost = None
              /\ IF InOperation(p[1], ItemYear(p, y).year)
                 THEN ItemYear(p, y).costs_in_year.variable_opex_cost =
                            ItemEstimate(p).costs.variable_opex_cost_per_year
                 ELSE AllZero(ItemYear(p, y).costs_in_year.variable_opex_cost)

\* An item with a total installed cost and variable opex in a series of
\* three years: two of construction, the second also of operation, the third
\* of neither
C20_Witness ==
    /\ Succeeded
    /\ \E p \in EstimatedItems :
          /\ Len(ItemEstimate(p).costs_by_year) = 3
          /\ ConstructionYears(p[1]) = 2
          /\ ItemEstimate(p).costs.total_installed_cost.some
          /\ ItemYear(p, 2).costs_in_year.total_installed_cost =
                Some(RDiv(ItemEstimate(p).costs.total_installed_cost.v, R(2)))
          /\ ~IsZero(ItemYear(p, 2).costs_in_year.total_installed_cost.v)
          /\ ItemYear(p, 3).costs_in_year.total_installed_cost = None
          /\ InOperation(p[1], ItemYear(p, 2).year)
          /\ RLess(Zero(0), ItemYear(p, 2).costs_in_year.variable_opex_cost.electrical_power)
          /\ ItemYear(p, 2).costs_in_year.variable_opex_cost =
                ItemEstimate(p).costs.variable_opex_cost_per_year
          /\ ~InOperation(p[1], ItemYear(p, 3).year)
          /\ AllZero(ItemYear(p, 3).costs_in_year.variable_opex_cost)

-----------------------------------------------------------------------------
(* C21 *)

Added == pc = "added"
Folded == pc = "folded"

CapitalCategories == {"direct_equipment_cost", "total_installed_cost"}

\* present + present = sum, present + absent = the present one, absent +
\* absent = absent
OptionSum(x, y) ==
    IF x.some /\ y.some THEN Some(RAdd(x.v, y.v))
    ELSE IF x.some THEN x
    ELSE y

PeriodIndices == 1..Len(period_costs)

\* C21: adding two CostItemPeriodCosts gives, for each capital category, the
\* sum when both are present, the present value unchanged when one is absent,
\* in either operand order, and absent when both are absent; so the lifetime
\* total folded from the all-absent default is absent exactly when the
\* category is absent in every year, a present zero stays present and an
\* absent value does not become zero.
C21_OptionalAddition ==
    /\ Added =>
          /\ lifetime[1] = lifetime[2]
          /\ \A c \in CapitalCategories :
                lifetime[1][c] = OptionSum(period_costs[1][c], period_costs[2][c])
    /\ Folded =>
          \A c \in CapitalCategories :
              /\ lifetime[c].some <=> \E k \in PeriodIndices : period_costs[k][c].some
              /\ lifetime[c].some =>
                    REq(lifetime[c].v,
                        PresentSum([k \in PeriodIndices |-> period_costs[k][c]]))

\* A present zero added to an absent value in each order, and a fold over a
\* year with a zero direct equipment cost and a year without one
C21_Witness ==
    /\ Folded
    /\ Len(period_costs) = 2
    /\ period_costs[1].direct_equipment_cost = Some(Zero(0))
    /\ period_costs[2].direct_equipment_cost = None
    /\ lifetime.direct_equipment_cost = Some(Zero(0))
    /\ period_costs[1].total_installed_cost = None
    /\ period_costs[2].total_installed_cost = None
    /\ lifetime.total_installed_cost = None

C21_AddedWitness ==
    /\ Added
    /\ period_costs[1].direct_equipment_cost = None
    /\ period_costs[2].direct_equipment_cost = Some(R(60))
    /\ period_costs[1].total_installed_cost = Some(R(7))
    /\ period_costs[2].total_installed_cost = Some(R(7))
    /\ lifetime[1].direct_equipment_cost = Some(R(60))
    /\ lifetime[2].total_installed_cost = Some(R(14))

-----------------------------------------------------------------------------
(* C22 *)

OpexCalculated == pc = "opex"

\* The reference item calculate_variable_opex_cost was called on
OpexItem == cost_reference_items(cost_library)[cost_item.cost_item_ref]

\* The 9 categories: the contribution name each reads and its unit cost,
\* 0.4 (tariff: 20) times the 8322 operational hours of a year
CategoryNames ==
    [electrical_power |-> "Electrical power",
     cooling_water |-> "Cooling water (10degC temp rise)",
     natural_gas |-> "Natural gas",
     steam_hp_superheated |-> "Steam HP superheat, 600degC and 50bara",
     steam_lp_saturated |-> "Steam LP saturated, 160degC and 6.2bara",
     catalysts_and_chemicals |-> "Catalysts and chemicals",
     equipment_item_rental |-> "Equipment item rental",
     cost_per_tonne_of_co2 |-> "Cost per tonne of CO2",
     tariff |-> "Tariff paid to storage reservoir owner"]

UnitCost(category) ==
    IF category = "tariff" THEN RMul(R(20), R(8322)) ELSE RMul(Frac(4, 10), R(8322))

\* The positions of the contributions the item declares under the name of
\* the category
Declaring(item, category) ==
    {k \in DOMAIN item.variable_opex_contributions :
        item.variable_opex_contributions[k].name = CategoryNames[category]}

Applicable(item, parameters, category) ==
    /\ Declaring(item, category) # {}
    /\ CategoryNames[category] \in DOMAIN parameters

FirstDeclared(item, category) ==
    item.variable_opex_contributions[
        CHOOSE k \in Declaring(item, category) :
            \A other \in Declaring(item, category) : k <= other]

\* supplied x scaled_by x unit cost x currency factor x inflation factor x 20
CategoryCost(item, parameters, category) ==
    RMul(RMul(RMul(RMul(RMul(parameters[CategoryNames[category]],
                             FirstDeclared(item, category).scaled_by),
                        UnitCost(category)),
                   RMul(cost_library.currency_conversion.rates[
                            item.capex_contribution.currency],
                        ItemOptions.target_currency_rate)),
              cost_library.inflation.factors[to_string(item.capex_contribution.year)]),
         R(20))

\* C22: each of the 9 variable-opex categories of an item costs supplied x
\* scaled_by x unit cost x currency factor x inflation factor x 20 when the
\* reference item declares a contribution of the category's name and a
\* parameter of that name is supplied, and zero otherwise; an item without
\* any such category gets all zeros and no error even when its currency or
\* year is unknown.
C22_VariableOpexCost ==
    OpexCalculated =>
        /\ (\A category \in DOMAIN CategoryNames :
                ~Applicable(OpexItem, cost_item.parameters, category)) =>
              opex = Ok([category \in DOMAIN CategoryNames |-> Zero(0)])
        /\ opex.tag = "Ok" =>
              /\ DOMAIN opex.val = DOMAIN CategoryNames
              /\ \A category \in DOMAIN CategoryNames :
                    opex.val[category] =
                        IF Applicable(OpexItem, cost_item.parameters, category)
                        THEN CategoryCost(OpexItem, cost_item.parameters, category)
                        ELSE Zero(0)
        /\ opex.tag # "Panic"

\* The item that declares all nine and is given all nine, EUR of 2023 with no
\* target currency: each category at supplied x scaled_by x 3328.8 (tariff:
\* 166440) x 3 x 2 x 20, the tariff at 19 x 11 x 166440 x 120
C22_Witness ==
    /\ OpexCalculated
    /\ ~target_currency.some
    /\ \A category \in DOMAIN CategoryNames :
          Applicable(OpexItem, cost_item.parameters, category)
    /\ \A category \in DOMAIN CategoryNames :
          \A other \in DOMAIN CategoryNames \ {category} :
             /\ cost_item.parameters[CategoryNames[category]] #
                   cost_item.parameters[CategoryNames[other]]
             /\ FirstDeclared(OpexItem, category).scaled_by #
                   FirstDeclared(OpexItem, other).scaled_by
    /\ opex = Ok([electrical_power |-> R(8788032),
                  cooling_water |-> R(14380416),
                  natural_gas |-> R(25964640),
                  steam_hp_superheated |-> R(39146688),
                  steam_lp_saturated |-> R(2995920),
                  catalysts_and_chemicals |-> Finite(0, 23, 19173888, 1),
                  equipment_item_rental |-> Finite(0, 24, 27163008, 1),
                  cost_per_tonne_of_co2 |-> R(1797552),
                  tariff |-> Finite(0, 31, 32611837, 134217728)])

\* An item of unknown currency and year without a contribution, given the
\* nine parameters: all zeros, no error
C22_NoLookup ==
    /\ OpexCalculated
    /\ OpexItem.capex_contribution.currency \notin DOMAIN cost_library.currency_conversion.rates
    /\ to_string(OpexItem.capex_contribution.year) \notin DOMAIN cost_library.inflation.factors
    /\ OpexItem.variable_opex_contributions = <<>>
    /\ \A category \in DOMAIN CategoryNames :
          CategoryNames[category] \in DOMAIN cost_item.parameters
    /\ opex = Ok([category \in DOMAIN CategoryNames |-> Zero(0)])

\* An item of unknown currency and year that declares natural gas and is
\* given the eight others: all zeros, no error; given natural gas, the error
\* of the currency
C22_DeclaredNoLookup ==
    /\ OpexCalculated
    /\ OpexItem.capex_contribution.currency \notin DOMAIN cost_library.currency_conversion.rates
    /\ Declaring(OpexItem, "natural_gas") # {}
    /\ "Natural gas" \notin DOMAIN cost_item.parameters
    /\ "Tariff paid to storage reservoir owner" \in DOMAIN cost_item.parameters
    /\ opex = Ok([category \in DOMAIN CategoryNames |-> Zero(0)])

C22_DeclaredLookup ==
    /\ OpexCalculated
    /\ Applicable(OpexItem, cost_item.parameters, "natural_gas")
    /\ opex = Err(UnknownCurrencyConversion("KHR"))

\* The item that declares all nine and is not given the tariff: the tariff
\* zero, the eight others not
C22_NotSupplied ==
    /\ OpexCalculated
    /\ Declaring(OpexItem, "tariff") # {}
    /\ "Tariff paid to storage reservoir owner" \notin DOMAIN cost_item.parameters
    /\ opex.tag = "Ok"
    /\ opex.val.tariff = Zero(0)
    /\ \A category \in DOMAIN CategoryNames \ {"tariff"} : ~IsZero(opex.val[category])

\* The item that declares three of the nine, the tariff twice, given all
\* nine, GBP of 2024: the tariff by the first of its two contributions
\* (19 x 3 x 166440 x 20), cooling water 12 x 6 x 3328.8 x 20, steam LP
\* 15 x 9 x 3328.8 x 20, zero for the six it does not declare
C22_NotDeclared ==
    /\ OpexCalculated
    /\ ~target_currency.some
    /\ Cardinality(Declaring(OpexItem, "tariff")) = 2
    /\ \A category \in DOMAIN CategoryNames :
          CategoryNames[category] \in DOMAIN cost_item.parameters
    /\ opex = Ok([category \in DOMAIN CategoryNames |->
                    IF category = "tariff" THEN R(189741600)
                    ELSE IF category = "cooling_water" THEN R(4793472)
                    ELSE IF category = "steam_lp_saturated" THEN R(8987760)
                    ELSE Zero(0)])

-----
(* C23 *)

IsPolynomial == linked.val.cost_reference_item.capex_contribution.cost.tag = "Polynomial"

PolynomialTerms == linked.val.cost_reference_item.capex_contribution.cost.parameters

\* The dimension names the terms read
TermNames ==
    {PolynomialTerms[k].dimension_name :
        k \in {t \in DOMAIN PolynomialTerms : PolynomialTerms[t].tag = "Variable"}}

\* The sum over the terms of the constant value or of coefficient x
\* supplied[dimension_name] x exponent; 0 without terms
Term(term, supplied) ==
    IF term.tag = "Constant" THEN term.value
    ELSE RMul(RMul(term.coefficient, supplied[term.dimension_name]), term.exponent)

\* added from the first term to the last
RECURSIVE TermSum(_, _)
TermSum(terms, supplied) ==
    IF terms = <<>> THEN Zero(0)
    ELSE IF Len(terms) = 1 THEN Term(terms[1], supplied)
    ELSE RAdd(TermSum(SubSeq(terms, 1, Len(terms) - 1), supplied),
              Term(terms[Len(terms)], supplied))

\* C23: the capital cost of a Polynomial item before currency and inflation
\* is the sum over the declared terms of the term's constant value or of
\* coefficient x supplied[dimension_name] x exponent, and 0 when no term is
\* declared.
C23_PolynomialCapitalCost ==
    /\ (/\ Linked /\ linked.tag = "Ok" /\ IsPolynomial
        /\ TermNames \subseteq DOMAIN linked.val.parameters) =>
            capex_formula(linked.val.cost_reference_item, linked.val.parameters) =
                Some(TermSum(PolynomialTerms, linked.val.parameters))
    /\ (Costed /\ costs.tag = "Ok" /\ IsPolynomial) =>
            /\ TermNames \subseteq DOMAIN linked.val.parameters
            /\ CapitalCost =
                  RMul(RMul(RMul(TermSum(PolynomialTerms, linked.val.parameters),
                                 get_currency_factor(cost_library, SourceCurrency,
                                                     ItemOptions).val),
                            get_inflation_factor(cost_library, SourceYear).val),
                       R(cost_item.quantity))

\* A costed item of a constant and a variable term: 10 + 3 x 30 x 2
C23_Witness ==
    /\ Costed /\ costs.tag = "Ok" /\ IsPolynomial
    /\ Len(PolynomialTerms) = 2
    /\ \E k \in DOMAIN PolynomialTerms : PolynomialTerms[k].tag = "Constant"
    /\ linked.val.parameters["length"] = R(30)
    /\ cost_item.quantity = 1
    /\ ~target_currency.some
    /\ CapitalCost = R(190)

\* A costed polynomial item without terms: a capital cost of 0
C23_NoTerm ==
    /\ Costed /\ costs.tag = "Ok" /\ IsPolynomial
    /\ PolynomialTerms = <<>>
    /\ cost_item.quantity = 3
    /\ costs.val.direct_equipment_cost = Some(Zero(0))

-----------------------------------------------------------------------------
(* C24 *)

\* The variable opex of the linked item as calculated, before the quantity
UnitOpex ==
    calculate_variable_opex_cost(cost_library, linked.val.cost_reference_item,
                                 linked.val.parameters, ItemOptions)

\* The sum over the items of the j-th asset of a variable-opex category
ItemsOpex(j, category) ==
    SeqSum([i \in ItemsOf(j) |->
                AssetEstimate(j).cost_items[i].costs.variable_opex_cost_per_year[category]])

\* C24: every cost of a linked item is q times the value calculated for one
\* unit: its direct equipment or total installed cost, whichever is present,
\* and each of its 9 variable-opex categories; the asset's variable opex per
\* year is the category-wise sum of the items' scaled values.
C24_QuantityScaling ==
    /\ (Costed /\ costs.tag = "Ok") =>
          /\ CapitalCost = RMul(R(cost_item.quantity), UnitCapex.val.v)
          /\ DOMAIN costs.val.variable_opex_cost_per_year = DOMAIN CategoryNames
          /\ \A category \in DOMAIN CategoryNames :
                costs.val.variable_opex_cost_per_year[category] =
                    RMul(R(cost_item.quantity), UnitOpex.val[category])
    /\ \A j \in EstimatedAssets :
          /\ \A category \in DOMAIN CategoryNames :
                REq(AssetEstimate(j).costs.variable_opex_cost_per_year[category],
                    ItemsOpex(j, category))
          /\ \A i \in ItemsOf(j) :
                AssetEstimate(j).cost_items[i].costs =
                    get_costs(LinkResult(j, i).val, OptionsUsed).val

\* An item of quantity 3 with a capital cost and electrical power
C24_Witness ==
    /\ Costed /\ costs.tag = "Ok"
    /\ cost_item.quantity = 3
    /\ RLess(Zero(0), UnitCapex.val.v)
    /\ RLess(Zero(0), UnitOpex.val.electrical_power)
    /\ CapitalCost = RMul(R(3), UnitCapex.val.v)
    /\ costs.val.variable_opex_cost_per_year.electrical_power =
          RMul(R(3), UnitOpex.val.electrical_power)

\* An asset of several items, one of quantity 2 with electrical power
C24_AssetWitness ==
    /\ Succeeded
    /\ \E j \in EstimatedAssets :
          /\ Len(AssetEstimate(j).cost_items) >= 2
          /\ \E i \in ItemsOf(j) :
                /\ AssetEstimate(j).cost_items[i].quantity = 2
                /\ RLess(Zero(0), AssetEstimate(j).cost_items[i].costs
                                   .variable_opex_cost_per_year.electrical_power)
          /\ RLess(Zero(0), AssetEstimate(j).costs.variable_opex_cost_per_year.electrical_power)

-----------------------------------------------------------------------------
(* C25 *)

\* The target currency converts and every cost item of the request links
\* and costs
ItemsValid ==
    /\ InternalOptions.tag = "Ok"
    /\ \A j \in 1..Len(assets) : \A i \in 1..Len(assets[j].cost_items) :
        /\ LinkResult(j, i).tag = "Ok"
        /\ get_costs(LinkResult(j, i).val, OptionsUsed).tag = "Ok"

\* Whether the sub-ranges of a timeline are in order: each finishes no
\* earlier than it starts and none starts before the one before it finishes
Ordered(timeline) ==
    /\ timeline.construction_start <= timeline.construction_finish
    /\ timeline.construction_finish < timeline.operation_start
    /\ timeline.operation_start <= timeline.operation_finish
    /\ timeline.operation_finish < timeline.decommissioning_start
    /\ timeline.decommissioning_start <= timeline.decommissioning_finish

\* In every year of the series a cost category of the asset carries a cost
\* exactly when the year lies between the start and the finish of the
\* category's own sub-range: capital in construction, fixed and variable opex
\* in operation, the decommissioning cost in decommissioning.
GatedBySubRange ==
    \A j \in EstimatedAssets : \A y \in AssetYears(j) :
        /\ ~IsZero(AssetYear(j, y).costs_in_year.total_installed_cost) <=>
              /\ InConstruction(j, AssetYear(j, y).year)
              /\ ~IsZero(AssetEstimate(j).costs.total_installed_cost)
        /\ ~IsZero(AssetYear(j, y).costs_in_year.fixed_opex_cost.maintenance) <=>
              /\ InOperation(j, AssetYear(j, y).year)
              /\ ~IsZero(AssetEstimate(j).costs.total_installed_cost)
              /\ ~IsZero(assets[j].opex_factors.maintenance)
        /\ \A category \in DOMAIN CategoryNames :
              ~IsZero(AssetYear(j, y).costs_in_year.variable_opex_cost[category]) <=>
                 /\ InOperation(j, AssetYear(j, y).year)
                 /\ ~IsZero(AssetEstimate(j).costs.variable_opex_cost_per_year[category])
        /\ ~IsZero(AssetYear(j, y).costs_in_year.decommissioning_cost) <=>
              /\ InDecommissioning(j, AssetYear(j, y).year)
              /\ ~IsZero(AssetEstimate(j).costs.decommissioning_cost)

\* No year of a timeline of the request lies more than I16Max years after
\* the year construction starts
SpanInI16 ==
    \A j \in 1..Len(assets) :
        assets[j].timeline.decommissioning_finish
            - assets[j].timeline.construction_start <= I16Max

\* C25, for the timelines that span no more than I16Max years: a request whose
\* target currency converts and whose cost items all link and cost is
\* answered Ok for any six years, ordered or not, and each cost category is
\* gated by the years of its own sub-range as submitted.
C25_TimelineAsGiven ==
    /\ (Responded /\ ItemsValid /\ SpanInI16) => response.status = "Ok"
    /\ GatedBySubRange

\* C25 as stated, for any six timeline years: a request whose target
\* currency converts and whose cost items all link and cost is never
\* rejected on account of the timeline (the answer is Ok), and each cost
\* category is gated by the years of its own sub-range as submitted.
C25_AsStated ==
    /\ (Responded /\ ItemsValid) => response.status = "Ok"
    /\ GatedBySubRange

\* A request whose items are valid, over a timeline of more than I16Max
\* years, in a build with overflow checks: estimate_cost panics
C25_Overflow ==
    /\ Responded
    /\ ItemsValid
    /\ ~SpanInI16
    /\ overflow_checks
    /\ \E j \in 1..Len(assets) : assets[j].cost_items # <<>>
    /\ response = Panicked

\* An estimate over a timeline whose construction finishes before it starts
\* and whose operation and decommissioning overlap: the first year of the
\* series carries opex and a decommissioning cost and no capital cost
C25_Witness ==
    /\ Succeeded
    /\ \E j \in EstimatedAssets :
          /\ TimelineOf(j).construction_finish < TimelineOf(j).construction_start
          /\ ~Ordered(TimelineOf(j))
          /\ Len(AssetEstimate(j).costs_by_year) >= 1
          /\ InOperation(j, AssetYear(j, 1).year)
          /\ InDecommissioning(j, AssetYear(j, 1).year)
          /\ RLess(Zero(0), AssetEstimate(j).costs.total_installed_cost)
          /\ IsZero(AssetYear(j, 1).costs_in_year.total_installed_cost)
          /\ RLess(Zero(0), AssetYear(j, 1).costs_in_year.fixed_opex_cost.maintenance)
          /\ RLess(Zero(0), AssetYear(j, 1).costs_in_year.decommissioning_cost)

-----------------------------------------------------------------------------
(* C26 *)

\* The rank of a kind of error in combine
Rank(error) ==
    CASE error.type = "UnknownCostItem" -> 4
      [] error.type = "UnknownCurrencyConversion" -> 3
      [] error.type = "UnknownInflationFactor" -> 2
      [] error.type = "MissingProperties" -> 1

\* The highest rank among the errors of a list
HighestRank(list) ==
    CHOOSE r \in {Rank(list[k]) : k \in DOMAIN list} :
        \A k \in DOMAIN list : Rank(list[k]) <= r

\* C26: combine ranks the kinds UnknownCostItem > UnknownCurrencyConversion >
\* UnknownInflationFactor > MissingProperties: of two errors of different
\* kinds it returns the one of the higher rank, whichever operand it is, and
\* the error a fold over a list of errors returns has the highest rank in the
\* list, whatever the order of the list.
C26_PrecedenceByKind ==
    Reduced =>
        /\ (Len(errors) = 2 /\ Rank(errors[1]) > Rank(errors[2])) =>
              combined = Some(errors[1])
        /\ (Len(errors) = 2 /\ Rank(errors[1]) < Rank(errors[2])) =>
              combined = Some(errors[2])
        /\ Len(errors) >= 1 => Rank(combined.v) = HighestRank(errors)

\* A list of three errors of three kinds with the highest-ranked first
C26_Witness ==
    /\ Reduced
    /\ Len(errors) = 3
    /\ errors[1].type = "UnknownCostItem"
    /\ errors[2].type = "UnknownInflationFactor"
    /\ errors[3].type = "UnknownCurrencyConversion"
    /\ combined = Some(errors[1])

\* Two errors of different kinds other than MissingProperties, the
\* higher-ranked first
C26_PairWitness ==
    /\ Reduced
    /\ Len(errors) = 2
    /\ errors[1].type = "UnknownCurrencyConversion"
    /\ errors[2].type = "UnknownInflationFactor"
    /\ combined = Some(errors[1])

-----------------------------------------------------------------------------
(* C27 *)

\* get_costs on the i-th cost item of the j-th asset, linked
CostResult(j, i) == get_costs(LinkResult(j, i).val, OptionsUsed)

\* The items of the j-th asset whose costs are not calculated
NotCosted(j) == {i \in ItemIndices(j) : CostResult(j, i).tag # "Ok"}

FirstOf(S) == CHOOSE i \in S : \A k \in S : i <= k

\* C27: when every cost item of an asset links and the calculation fails for
\* some of them, estimate_asset_cost returns the error of the first failing
\* item in request order alone, the errors of later items not being combined
\* into it; and the calculation for an item priced in an unknown currency at
\* an unknown year returns the currency error.
C27_FirstCalculationError ==
    /\ Responded =>
          \A j \in AssetIndices :
              (/\ FailingLinks(j) = {}
               /\ NotCosted(j) # {}
               /\ CostResult(j, FirstOf(NotCosted(j))).tag = "Err") =>
                   AssetResult(j) = CostResult(j, FirstOf(NotCosted(j)))
    /\ (/\ Costed
        /\ costs.tag # "Panic"
        /\ SourceCurrency \notin DOMAIN cost_library.currency_conversion.rates
        /\ SourceYear \notin DOMAIN cost_library.inflation.factors) =>
            costs = Err(UnknownCurrencyConversion(SourceCurrency))

\* An asset of two items, the first of unknown year and the second of
\* unknown currency: the year is reported
C27_Witness ==
    /\ Responded
    /\ \E j \in AssetIndices :
          /\ FailingLinks(j) = {}
          /\ NotCosted(j) = {1, 2}
          /\ CostResult(j, 1).err.type = "UnknownInflationFactor"
          /\ CostResult(j, 2).err.type = "UnknownCurrencyConversion"
          /\ AssetResult(j) = Err(UnknownInflationFactor("1066"))

\* An item priced in an unknown currency at an unknown year
C27_ItemWitness ==
    /\ Costed
    /\ SourceCurrency \notin DOMAIN cost_library.currency_conversion.rates
    /\ SourceYear \notin DOMAIN cost_library.inflation.factors
    /\ costs = Err(UnknownCurrencyConversion("KHR"))

-----------------------------------------------------------------------------
(* C28 *)

\* The items' direct equipment costs of a period (a year of the series or the
\* lifetime), the absent ones left out, summed
ItemsDirectEquipmentIn(j, period) ==
    PresentSum([i \in ItemsOf(j) |-> period[i].direct_equipment_cost])

\* The items' variable opex of a period in a category, summed
ItemsOpexIn(j, period, category) ==
    SeqSum([i \in ItemsOf(j) |-> period[i].variable_opex_cost[category]])

\* The asset's costs of a period are the sums of the items' costs of it, up
\* to the rounding of the two ways of dividing and adding
SumsOfItems(j, asset_period, period) ==
    /\ Near(asset_period.direct_equipment_cost, ItemsDirectEquipmentIn(j, period))
    /\ \A category \in DOMAIN CategoryNames :
          Near(asset_period.variable_opex_cost[category],
               ItemsOpexIn(j, period, category))

\* C28: in a successful estimate the per-year series of every item covers
\* the years of its asset's series in the same order; in every year the
\* asset's direct equipment cost is the sum of the items' direct equipment
\* costs of that year, an absent one counting as 0, and its variable opex is
\* the category-wise sum of the items' variable opex of that year; the
\* lifetime totals are related in the same way.  The asset divides the sum
\* where the items are divided and then summed, so the two agree up to
\* rounding.
C28_SeriesAgree ==
    \A j \in EstimatedAssets :
        /\ \A i \in ItemsOf(j) :
              [y \in ItemYears(<<j, i>>) |-> ItemYear(<<j, i>>, y).year] =
                  [y \in AssetYears(j) |-> AssetYear(j, y).year]
        /\ \A y \in AssetYears(j) :
              SumsOfItems(j, AssetYear(j, y).costs_in_year,
                          [i \in ItemsOf(j) |-> ItemYear(<<j, i>>, y).costs_in_year])
        /\ SumsOfItems(j, AssetEstimate(j).lifetime_costs,
                       [i \in ItemsOf(j) |-> ItemEstimate(<<j, i>>).lifetime_costs])

\* An asset of three items, two with a direct equipment cost and one without,
\* in a year of construction and operation of a series of several years
C28_Witness ==
    /\ Succeeded
    /\ \E j \in EstimatedAssets :
          /\ Len(AssetEstimate(j).cost_items) = 3
          /\ Len(AssetEstimate(j).costs_by_year) >= 2
          /\ \E y \in AssetYears(j) :
                /\ ItemYear(<<j, 1>>, y).costs_in_year.direct_equipment_cost.some
                /\ ~ItemYear(<<j, 2>>, y).costs_in_year.direct_equipment_cost.some
                /\ ItemYear(<<j, 3>>, y).costs_in_year.direct_equipment_cost.some
                /\ Near(AssetYear(j, y).costs_in_year.direct_equipment_cost,
                        RAdd(ItemYear(<<j, 1>>, y).costs_in_year.direct_equipment_cost.v,
                             ItemYear(<<j, 3>>, y).costs_in_year.direct_equipment_cost.v))
                /\ RLess(Zero(0), ItemYear(<<j, 1>>, y).costs_in_year.direct_equipment_cost.v)
                /\ RLess(Zero(0), AssetYear(j, y).costs_in_year.variable_opex_cost.electrical_power)
          /\ RLess(Zero(0), AssetEstimate(j).lifetime_costs.direct_equipment_cost)

-----------------------------------------------------------------------------
(* C29 *)

\* The names under which the resolved reference item declares a variable-opex
\* contribution that is none of the 9 categories; a name that a scaling
\* factor or a term of the capital formula also reads is not among them
UncategorisedNames ==
    {c.name : c \in Range(ResolvedItem.variable_opex_contributions)}
    \ ({CategoryNames[f] : f \in DOMAIN CategoryNames}
       \cup {f.name : f \in Range(ResolvedItem.scaling_factors)}
       \cup (IF ResolvedItem.capex_contribution.cost.tag = "Polynomial"
             THEN {t.dimension_name :
                      t \in {u \in Range(ResolvedItem.capex_contribution.cost.parameters) :
                                u.tag = "Variable"}}
             ELSE {}))

\* The linked item with another value supplied under a name
Resupplied(name, value) ==
    [linked.val EXCEPT !.parameters = [linked.val.parameters EXCEPT ![name] = value]]

\* C29: a variable-opex contribution declared under a name that is none of
\* the 9 category names is required by the linker, which reports
\* MissingProperties naming it when it is not supplied; the value supplied
\* for it reaches no field of the item's costs, which are the same for
\* every value of it.
C29_UncategorisedContribution ==
    /\ (Linked /\ RefResolves) =>
          \A name \in UncategorisedNames :
              name \notin DOMAIN cost_item.parameters =>
                  /\ linked.tag = "Err"
                  /\ linked.err.type = "MissingProperties"
                  /\ MissingProperty(cost_item.id, name) \in Range(linked.err.properties)
    /\ (Costed /\ RefResolves) =>
          \A name \in UncategorisedNames : \A value \in ParamValues :
              /\ get_costs(Resupplied(name, value), ItemOptions) = costs
              /\ calculate_variable_opex_cost(
                     cost_library, ResolvedItem,
                     [cost_item.parameters EXCEPT ![name] = value], ItemOptions) =
                 calculate_variable_opex_cost(
                     cost_library, ResolvedItem, cost_item.parameters, ItemOptions)

\* The item with a contribution named "depth" costed with a depth of 30: the
\* costs are those of a depth of 100
C29_Witness ==
    /\ Costed
    /\ RefResolves
    /\ UncategorisedNames = {"depth"}
    /\ cost_item.parameters["depth"] = R(30)
    /\ cost_item.quantity = 3
    /\ costs.tag = "Ok"
    /\ RLess(Zero(0), CapitalCost)
    /\ get_costs(Resupplied("depth", R(100)), ItemOptions) = costs

\* The same item linked without a depth
C29_Missing ==
    /\ Linked
    /\ RefResolves
    /\ UncategorisedNames = {"depth"}
    /\ DOMAIN cost_item.parameters = {"length"}
    /\ linked = Err(MissingProperties(<<MissingProperty(cost_item.id, "depth")>>))

-----------------------------------------------------------------------------
(* C30 *)

InServer == pc \in {"server", "dropped"}

\* The threads inside start() or stop(), from the lock to its release
Inside ==
    {t \in Threads :
        threads[t].pc \in {"start", "bind", "lsof", "kill", "rebind", "spawn", "stop",
                           "return"}}

\* The child the server tracks, as a set
Tracked == IF process.some THEN {process.v} ELSE {}

Returned(t, op) == threads[t].pc = "return" /\ threads[t].op = op

\* C30: under any interleaving of the auto-start thread and the two commands
\* a thread is inside start() or stop() only while it holds the mutex, so at
\* most one is; start() checks the port and spawns only with no child tracked,
\* having called stop() on the one it held, so that every child ever spawned
\* is the tracked one or has had kill called on it; a start() that returns
\* Err leaves no child tracked; stop() leaves no child tracked, and finding
\* none returns Ok.
C30_OneTrackedChild ==
    InServer =>
        /\ \A t \in Inside : lock = Some(t)
        /\ \A t \in Threads :
              threads[t].pc \in {"bind", "lsof", "kill", "rebind", "spawn"} =>
                  process = None
        /\ 1..spawned = Tracked \cup killed
        /\ Tracked \cap killed = {}
        /\ alive \subseteq 1..spawned
        /\ \A t \in Threads :
              (Returned(t, "start") /\ threads[t].result.tag = "Err") => process = None
        /\ \A t \in Threads :
              (Returned(t, "start") /\ threads[t].result.tag = "Ok") =>
                  process = Some(spawned)
        /\ \A t \in Threads :
              Returned(t, "stop") =>
                  /\ process = None
                  /\ ~threads[t].child.some => threads[t].result = Ok(Unit)

\* A start that found a child tracked, had it killed and tracks the child it
\* spawned, while another command waits for the mutex
C30_Witness ==
    /\ InServer
    /\ \E t \in Threads :
          /\ Returned(t, "start")
          /\ threads[t].result = Ok(Unit)
          /\ process = Some(2)
          /\ killed = {1}
          /\ alive = {2}
          /\ lock = Some(t)
          /\ \E u \in Threads \ {t} : threads[u].pc = "lock"

\* A start that returns Err after it stopped the child it held
C30_FailedStart ==
    /\ InServer
    /\ \E t \in Threads :
          /\ Returned(t, "start")
          /\ threads[t].result.tag = "Err"
          /\ killed = {1}
          /\ process = None

\* A stop that found no child
C30_Stopped ==
    /\ InServer
    /\ \E t \in Threads :
          /\ Returned(t, "stop")
          /\ ~threads[t].child.some
          /\ threads[t].result = Ok(Unit)

\* A stop whose kill failed: no child tracked, the child running
C30_StopFailed ==
    /\ InServer
    /\ \E t \in Threads :
          /\ Returned(t, "stop")
          /\ threads[t].child.some
          /\ threads[t].result.tag = "Err"
          /\ process = None
          /\ threads[t].child.v \in alive

\* A stop that returned Ok while the child it killed still holds the port,
\* and a start that finds the port held by the child it has just killed
C30_KilledListening ==
    /\ InServer
    /\ \E t \in Threads :
          /\ Returned(t, "stop")
          /\ threads[t].result = Ok(Unit)
          /\ threads[t].child.some
          /\ listening = {threads[t].child.v}

C30_KilledFound ==
    /\ InServer
    /\ \E t \in Threads :
          /\ threads[t].pc = "lsof"
          /\ process = None
          /\ listening # {}
          /\ listening \subseteq killed

====
